---- MODULE Spec2Model ----
(***************************************************************************)
(* Model of the survey pipeline of ReportAnalytics:                        *)
(*   backend/raw_data_processor.py  process_exit_survey (the normalizer)   *)
(*   backend/data_extractors.py     ExitEmbaExtractor (the extractor)      *)
(*   app/emba_exit_dashboard.py     the Streamlit script (the dashboard)   *)
(*                                                                         *)
(* A spreadsheet is a sequence of lines, a line a sequence of cells.  A    *)
(* cell is missing (NaN), a number n/d in lowest terms, or a string; a     *)
(* string is the sequence of its characters, so that str.startswith is a   *)
(* prefix test.  Question texts are cut after the question id: the code    *)
(* only compares whole names and tests prefixes of at most 8 characters.   *)
(* A character outside ASCII is written as its code point ("U+2013"), a    *)
(* Cyrillic word of data_extractors.py in Latin letters.  The literals of  *)
(* raw_data_processor.py are the characters its UTF-8 bytes decode to: its *)
(* Cyrillic texts are stored as the Mac Roman reading of their UTF-8       *)
(* bytes, two characters for each letter.                                  *)
(***************************************************************************)
EXTENDS Integers, Sequences, FiniteSets, TLC

VARIABLES raw, processed, df, call, arg, ret, session_state,
          tmpdir, plots, img_path, doc

\* the state of sections/download.py: the image files in the directory of
\* temporary files, and in generate_docx the figures still to go through,
\* the path of the image at hand and the pictures in the document
download == <<tmpdir, plots, img_path, doc>>

vars == <<raw, processed, df, call, arg, ret, session_state, download>>

\* no image has been written and generate_docx has not been called
NoDownload == tmpdir = {} /\ plots = 0 /\ img_path = 0 /\ doc = 0

(***************************************************************************)
(* Bounds of the model.                                                    *)
(***************************************************************************)
MaxRows == 2

MaxRowsOmit == 1

(***************************************************************************)
(* Cells.                                                                  *)
(***************************************************************************)
NaN == [t |-> "nan", n |-> 0, d |-> 1, s |-> <<>>]

Num(k) == [t |-> "num", n |-> k, d |-> 1, s |-> <<>>]

Str(chars) == [t |-> "str", n |-> 0, d |-> 1, s |-> chars]

isna(c) == c.t = "nan"

Abs(k) == IF k < 0 THEN -k ELSE k

RECURSIVE Gcd(_, _)
Gcd(a, b) == IF b = 0 THEN a ELSE Gcd(b, a % b)

\* the number a/b (b > 0) in lowest terms
Frac(a, b) ==
    LET g == Gcd(Abs(a), b)
    IN  [t |-> "num", n |-> a \div g, d |-> b \div g, s |-> <<>>]

\* int(x) of Python for a quotient a/b with b > 0: truncation toward zero
TruncDiv(a, b) == IF a >= 0 THEN a \div b ELSE -((-a) \div b)

RECURSIVE SumSeq(_)
SumSeq(q) == IF q = <<>> THEN 0 ELSE Head(q) + SumSeq(Tail(q))

Range(q) == {q[i] : i \in 1..Len(q)}

\* str.startswith
StartsWith(chars, prefix) ==
    /\ Len(chars) >= Len(prefix)
    /\ SubSeq(chars, 1, Len(prefix)) = prefix

(***************************************************************************)
(* Tables (pandas DataFrame): column labels and rows of cells.             *)
(***************************************************************************)
NoTable == [cols |-> <<>>, rows |-> <<>>]

\* positions of the columns whose label starts with prefix
\* ([col for col in df.columns if col.startswith(prefix)])
ColPrefix(tbl, prefix) ==
    {i \in 1..Len(tbl.cols) :
        tbl.cols[i].t = "str" /\ StartsWith(tbl.cols[i].s, prefix)}

HasCol(tbl, label) == \E i \in 1..Len(tbl.cols) : tbl.cols[i] = label

ColIndex(tbl, label) ==
    CHOOSE i \in 1..Len(tbl.cols) : tbl.cols[i] = label

\* the subsequence of q at the positions of the set keep, in order
RECURSIVE Pick(_, _, _)
Pick(q, keep, i) ==
    IF i > Len(q) THEN <<>>
    ELSE (IF i \in keep THEN <<q[i]>> ELSE <<>>) \o Pick(q, keep, i + 1)

KeepCols(tbl, keep) ==
    [cols |-> Pick(tbl.cols, keep, 1),
     rows |-> [r \in 1..Len(tbl.rows) |-> Pick(tbl.rows[r], keep, 1)]]

Column(tbl, i) == [r \in 1..Len(tbl.rows) |-> tbl.rows[r][i]]

\* Series.fillna(value) on column i
FillCol(tbl, i, value) ==
    [tbl EXCEPT !.rows =
        [r \in 1..Len(tbl.rows) |->
            [tbl.rows[r] EXCEPT ![i] = IF isna(@) THEN value ELSE @]]]

NonNa(q) == SelectSeq(q, LAMBDA c : ~isna(c))

(***************************************************************************)
(* pd.read_excel / DataFrame.to_excel                                      *)
(***************************************************************************)
Digit(k) == <<"0", "1", "2", "3", "4", "5", "6", "7", "8", "9">>[k + 1]

DecimalStr(k) == IF k < 10 THEN <<Digit(k)>> ELSE <<Digit(k \div 10), Digit(k % 10)>>

\* an empty header cell is named "Unnamed: <position>"
HeaderLabel(c, pos) ==
    IF isna(c) THEN Str(<<"U", "n", "n", "a", "m", "e", "d", ":", " ">> \o DecimalStr(pos))
    ELSE c

\* a repeated header name gets the suffix ".<k>" on its k-th repetition
MangleDupe(labels, i) ==
    LET k == Cardinality({j \in 1..(i - 1) : labels[j] = labels[i]})
    IN  IF k = 0 \/ labels[i].t # "str" THEN labels[i]
        ELSE Str(labels[i].s \o <<".">> \o DecimalStr(k))

read_excel(sheet, skiprows) ==
    LET kept  == Pick(sheet, {i \in 1..Len(sheet) : (i - 1) \notin skiprows}, 1)
    IN  IF kept = <<>> THEN NoTable
        ELSE LET named == [i \in 1..Len(kept[1]) |-> HeaderLabel(kept[1][i], i - 1)]
             IN  [cols |-> [i \in 1..Len(named) |-> MangleDupe(named, i)],
                  rows |-> Tail(kept)]

\* to_excel(buf, index=False): the header line, then the rows
to_excel(tbl) == <<tbl.cols>> \o tbl.rows

(***************************************************************************)
(* Arithmetic on numeric cells.                                            *)
(***************************************************************************)
FracAdd(a, b) == Frac(a.n * b.d + b.n * a.d, a.d * b.d)

FracLess(a, b) == a.n * b.d < b.n * a.d

RECURSIVE CellSum(_)
CellSum(q) == IF q = <<>> THEN Num(0) ELSE FracAdd(Head(q), CellSum(Tail(q)))

\* Series.mean(): the mean of the non-missing values, NaN when there is none
Mean(q) ==
    LET v == NonNa(q)
    IN  IF v = <<>> THEN NaN
        ELSE Frac(CellSum(v).n, CellSum(v).d * Len(v))

RECURSIVE Insert(_, _)
Insert(c, sorted) ==
    IF sorted = <<>> THEN <<c>>
    ELSE IF FracLess(Head(sorted), c) THEN <<Head(sorted)>> \o Insert(c, Tail(sorted))
    ELSE <<c>> \o sorted

RECURSIVE SortCells(_)
SortCells(q) == IF q = <<>> THEN <<>> ELSE Insert(Head(q), SortCells(Tail(q)))

\* Series.median(): of the non-missing values, NaN when there is none
Median(q) ==
    LET v == SortCells(NonNa(q))
        k == Len(v)
    IN  IF k = 0 THEN NaN
        ELSE IF k % 2 = 1 THEN v[(k + 1) \div 2]
        ELSE LET two == FracAdd(v[k \div 2], v[k \div 2 + 1])
             IN  Frac(two.n, two.d * 2)

(***************************************************************************)
(* Column names and sentinels of raw_data_processor.py.                    *)
(***************************************************************************)
PS0_Start == Str(<<"P", "S", "0", " ", "S", "t", "a", "r", "t">>)

PD0_Duration ==
    Str(<<"P", "D", "0", " ", "D", "u", "r", "a", "t", "i", "o", "n", " ", ",", " ", "s", "e", "c">>)

name_col == Str(<<"Q", "1", "6", " ">>)

\* line 26, up to the first character after the question id
age_col == Str(<<"Q", "1", "5", " ", "U+F8FF">>)

\* the list names the Q10 column twice
free_answer_cols ==
    << Str(<<"Q", "4", ".", "1", " ">>),
       Str(<<"Q", "4", ".", "2", " ">>),
       Str(<<"Q", "1", "0", " ">>),
       Str(<<"Q", "1", "0", " ">>),
       Str(<<"Q", "1", "1", ".", "1", ".", "O", " ">>),
       Str(<<"Q", "1", "1", ".", "5", ".", "O", " ">>),
       Str(<<"Q", "1", "3", ".", "6", ".", "O", " ">>),
       Str(<<"Q", "1", "4", ".", "2", "0", ".", "O", " ">>) >>

\* the "none" label of get_top_lectors (data_extractors.py line 222): the
\* five Cyrillic letters of the word
Nikto == Str(<<"N", "i", "k", "t", "o">>)

\* the sentinel written for a missing lecturer choice (line 23): the ten
\* characters of the literal in raw_data_processor.py
NiktoAsWritten ==
    Str(<<"U+2013", "U+00F9", "U+2013", "U+220F", "U+2013", "U+222B",
          "U+2014", "U+00C7", "U+2013", "U+00E6">>)

NoComments == Str(<<"N", "o", " ", "c", "o", "m", "m", "e", "n", "t", "s">>)

(***************************************************************************)
(* process_exit_survey.  An outcome is the exception raised (err) or, with *)
(* err = "", the table computed so far.                                    *)
(***************************************************************************)
Ok(tbl) == [err |-> "", tbl |-> tbl]

Raise(e) == [err |-> e, tbl |-> NoTable]

\* lines 12-15: the service, unnamed and metadata columns are dropped;
\* startswith on a label that is not a string raises, and so does the drop of
\* a metadata column that is not there
DropColumns(tbl) ==
    IF \E i \in 1..Len(tbl.cols) : tbl.cols[i].t # "str" THEN Raise("AttributeError")
    ELSE LET service_cols == ColPrefix(tbl, <<"S">>)
             unnamed_cols == ColPrefix(tbl, <<"U", "n", "n", "a", "m", "e", "d", ":">>)
             cols_to_drop ==
                 {i \in 1..Len(tbl.cols) : tbl.cols[i] \in {PS0_Start, PD0_Duration}}
                     \cup service_cols \cup unnamed_cols
         IN  IF ~HasCol(tbl, PS0_Start) \/ ~HasCol(tbl, PD0_Duration) THEN Raise("KeyError")
             ELSE Ok(KeepCols(tbl, (1..Len(tbl.cols)) \ cols_to_drop))

\* line 20: dropna(subset=[name_col], ignore_index=True)
DropNaNames(tbl) ==
    IF ~HasCol(tbl, name_col) THEN Raise("KeyError")
    ELSE Ok([tbl EXCEPT !.rows =
                SelectSeq(tbl.rows, LAMBDA row : ~isna(row[ColIndex(tbl, name_col)]))])

\* the row labels 0..n-1 of a table of n rows
RangeIndex(n) == [i \in 1..n |-> i - 1]

\* the row labels after dropna without ignore_index: the labels the
\* surviving rows had before
dropna_index_KeepLabels(tbl) ==
    LET name == ColIndex(tbl, name_col)
        kept == {r \in 1..Len(tbl.rows) : ~isna(tbl.rows[r][name])}
    IN  Pick(RangeIndex(Len(tbl.rows)), kept, 1)

\* line 20: the row labels after dropna(..., ignore_index=True); no later
\* statement changes them
dropna_index(tbl) ==
    LET name == ColIndex(tbl, name_col)
        kept == {r \in 1..Len(tbl.rows) : ~isna(tbl.rows[r][name])}
    IN  RangeIndex(Cardinality(kept))

\* line 23: the Q6 columns (chosen at line 19) are filled with the sentinel
FillLectors(tbl) ==
    LET q6_cols == ColPrefix(tbl, <<"Q", "6">>)
    IN  Ok([tbl EXCEPT !.rows =
               [r \in 1..Len(tbl.rows) |->
                   [i \in 1..Len(tbl.cols) |->
                       IF i \in q6_cols /\ isna(tbl.rows[r][i]) THEN NiktoAsWritten
                       ELSE tbl.rows[r][i]]]])

\* line 27 with the mean of the column in place of its median
FillAge_Mean(tbl) ==
    IF ~HasCol(tbl, age_col) THEN Raise("KeyError")
    ELSE LET a == ColIndex(tbl, age_col)
             m == Mean(Column(tbl, a))
         IN  Ok(IF isna(m) THEN tbl ELSE FillCol(tbl, a, m))

\* line 27: fillna of a NaN median (no age given at all) fills nothing
FillAge(tbl) ==
    IF ~HasCol(tbl, age_col) THEN Raise("KeyError")
    ELSE LET a == ColIndex(tbl, age_col)
             m == Median(Column(tbl, a))
         IN  Ok(IF isna(m) THEN tbl ELSE FillCol(tbl, a, m))

\* lines 35-36 with round() in place of int(): to the nearest integer, a
\* half to the even one
FillScores_Round(tbl) ==
    LET score_cols ==
            ColPrefix(tbl, <<"Q", "7">>) \cup ColPrefix(tbl, <<"Q", "8">>)
                \cup ColPrefix(tbl, <<"Q", "9">>)
        Floor2(i) == (2 * Mean(Column(tbl, i)).n) \div Mean(Column(tbl, i)).d
        Whole(i) == Mean(Column(tbl, i)).n \div Mean(Column(tbl, i)).d
        IntMean(i) ==
            Num(IF Floor2(i) % 2 = 0 THEN Whole(i)
                ELSE IF 2 * Mean(Column(tbl, i)).n = Floor2(i) * Mean(Column(tbl, i)).d
                          /\ Whole(i) % 2 = 0
                     THEN Whole(i)
                     ELSE Whole(i) + 1)
    IN  IF \E i \in score_cols : isna(Mean(Column(tbl, i))) THEN Raise("ValueError")
        ELSE Ok([tbl EXCEPT !.rows =
                    [r \in 1..Len(tbl.rows) |->
                        [i \in 1..Len(tbl.cols) |->
                            IF i \in score_cols /\ isna(tbl.rows[r][i]) THEN IntMean(i)
                            ELSE tbl.rows[r][i]]]])

\* lines 29-36: int() of a NaN mean raises ValueError
FillScores(tbl) ==
    LET score_cols ==
            ColPrefix(tbl, <<"Q", "7">>) \cup ColPrefix(tbl, <<"Q", "8">>)
                \cup ColPrefix(tbl, <<"Q", "9">>)
        IntMean(i) == Num(TruncDiv(Mean(Column(tbl, i)).n, Mean(Column(tbl, i)).d))
    IN  IF \E i \in score_cols : isna(Mean(Column(tbl, i))) THEN Raise("ValueError")
        ELSE Ok([tbl EXCEPT !.rows =
                    [r \in 1..Len(tbl.rows) |->
                        [i \in 1..Len(tbl.cols) |->
                            IF i \in score_cols /\ isna(tbl.rows[r][i]) THEN IntMean(i)
                            ELSE tbl.rows[r][i]]]])

\* lines 49-50 with the fill applied to the whole table
FillFree_AllColumns(tbl) ==
    IF \E k \in 1..Len(free_answer_cols) : ~HasCol(tbl, free_answer_cols[k])
    THEN Raise("KeyError")
    ELSE Ok([tbl EXCEPT !.rows =
                [r \in 1..Len(tbl.rows) |->
                    [i \in 1..Len(tbl.cols) |->
                        IF isna(tbl.rows[r][i]) THEN NoComments ELSE tbl.rows[r][i]]]])

\* lines 49-50
FillFree(tbl) ==
    IF \E k \in 1..Len(free_answer_cols) : ~HasCol(tbl, free_answer_cols[k])
    THEN Raise("KeyError")
    ELSE Ok([tbl EXCEPT !.rows =
                [r \in 1..Len(tbl.rows) |->
                    [i \in 1..Len(tbl.cols) |->
                        IF tbl.cols[i] \in Range(free_answer_cols) /\ isna(tbl.rows[r][i])
                        THEN NoComments
                        ELSE tbl.rows[r][i]]]])

\* a step of process_exit_survey after an outcome: an exception ends the call
Then(o, step) ==
    IF o.err # "" THEN o
    ELSE CASE step = "DropNaNames" -> DropNaNames(o.tbl)
           [] step = "FillLectors" -> FillLectors(o.tbl)
           [] step = "FillAge" -> FillAge(o.tbl)
           [] step = "FillScores" -> FillScores(o.tbl)
           [] step = "FillFree" -> FillFree(o.tbl)

\* the table process_exit_survey writes to its buffer, or the exception
\* (each step is bound to the value of the step before it)
Normalize(sheet) ==
    CHOOSE s6 \in
        {Then(s5, "FillFree") : s5 \in
            {Then(s4, "FillScores") : s4 \in
                {Then(s3, "FillAge") : s3 \in
                    {Then(s2, "FillLectors") : s2 \in
                        {Then(s1, "DropNaNames") : s1 \in
                            {DropColumns(t) : t \in {read_excel(sheet, {0, 2, 3})}}}}}}} : TRUE

\* the returned buffer: [err, sheet]
process_exit_survey(sheet) ==
    CHOOSE buf \in
        {[err |-> o.err, sheet |-> IF o.err = "" THEN to_excel(o.tbl) ELSE <<>>] :
            o \in {Normalize(sheet)}} : TRUE

(***************************************************************************)
(* Raw exports given to the normalizer: a title line, the header, two more *)
(* non-data lines, then one line per respondent.  The header holds the     *)
(* metadata, a service and an unnamed column, a column that is neither of  *)
(* these nor a question, and one column of each class of the normalizer; a *)
(* variant lacks one of the columns.                                       *)
(***************************************************************************)
\* a column of the export that none of the patterns of lines 12-14 names
ID_col == Str(<<"I", "D">>)

Q6_1 == Str(<<"Q", "6", ".", "1", " ">>)

Q7_1 == Str(<<"Q", "7", ".", "1", " ">>)

Q8_1 == Str(<<"Q", "8", ".", "1", " ">>)

nps_colname == Str(<<"Q", "1", "2", ".", "1", " ">>)

RawHeader ==
    << PS0_Start, PD0_Duration, Str(<<"S", "1", " ">>), NaN, ID_col, name_col, age_col,
       Q6_1, Q7_1, Q8_1, nps_colname >>
    \o Pick(free_answer_cols, {1, 2, 3, 5, 6, 7, 8}, 1)

\* One respondent: the name, the age and the Q7 score are each given or
\* missing; gaps = "text" leaves the lecturer choice, the Q10 comment and the
\* recommendation score empty; the Q8 score follows the Q7 score (9 beside a
\* missing one, 6 beside a 7, missing beside an 8), so that both score columns
\* have gaps and different means.
RowParams ==
    [name : {NaN, Str(<<"A", "n", "n">>)},
     age  : {NaN, Num(2), Num(5)},
     q7   : {NaN, Num(7), Num(8)},
     gaps : {"none", "text"}]

RawCell(label, p) ==
    CASE label = name_col -> p.name
      [] label = age_col -> p.age
      [] label = Q6_1 -> IF p.gaps = "text" THEN NaN ELSE Str(<<"P", "r", "o", "f">>)
      [] label = Q7_1 -> p.q7
      [] label = Q8_1 -> IF isna(p.q7) THEN Num(9) ELSE IF p.q7 = Num(7) THEN Num(6) ELSE NaN
      [] label = free_answer_cols[3] -> IF p.gaps = "text" THEN NaN ELSE Str(<<"t", "x", "t">>)
      [] label = nps_colname -> IF p.gaps = "text" THEN NaN ELSE Num(9)
      [] label = NaN -> NaN
      [] label = PD0_Duration -> Num(60)
      [] OTHER -> Str(<<"x">>)

RawSheet(omit, params) ==
    LET header == Pick(RawHeader, (1..Len(RawHeader)) \ omit, 1)
        junk   == [i \in 1..Len(header) |-> Str(<<"#">>)]
    IN  <<junk, header, junk, junk>>
            \o [r \in 1..Len(params) |->
                   [i \in 1..Len(header) |-> RawCell(header[i], params[r])]]

SeqsUpTo(S, k) == UNION {[1..m -> S] : m \in 0..k}

\* the columns a variant lacks: any one column, or both score columns
Omissions ==
    {{i} : i \in 1..Len(RawHeader)}
        \cup {{i \in 1..Len(RawHeader) : RawHeader[i] \in {Q7_1, Q8_1}}}

\* five named respondents, the third without an age; all else is given
AgeScenario ==
    [r \in 1..5 |->
        [name |-> Str(<<"A", "n", "n">>),
         age  |-> <<Num(2), Num(5), NaN, Num(3), Num(5)>>[r],
         q7   |-> Num(7),
         gaps |-> "none"]]

\* eleven named respondents: nine score Q7 with 8, one with 7, one not at
\* all (a mean of 7.9)
ScoreScenario ==
    [r \in 1..11 |->
        [name |-> Str(<<"A", "n", "n">>),
         age  |-> Num(2),
         q7   |-> IF r <= 9 THEN Num(8) ELSE IF r = 10 THEN Num(7) ELSE NaN,
         gaps |-> "none"]]

\* the variants: (columns left out, rows)
RawVariants ==
    ({{}} \X (SeqsUpTo(RowParams, MaxRows) \cup {AgeScenario, ScoreScenario}))
        \cup (Omissions \X SeqsUpTo(RowParams, MaxRowsOmit))

(***************************************************************************)
(* The normalizer as a state machine: one upload, normalized once; the     *)
(* returned buffer may be given to process_exit_survey again.              *)
(***************************************************************************)
NoOutcome == [err |-> "none", sheet |-> <<>>]

NoRet == [err |-> "none", val |-> <<>>]

\* st.session_state with no key set (no dashboard session)
NoSession == <<>>

InitNorm ==
    /\ \E v \in RawVariants : raw = RawSheet(v[1], v[2])
    /\ processed = NoOutcome
    /\ df = NoTable
    /\ call = "none"
    /\ session_state = NoSession
    /\ NoDownload
    /\ arg = <<>>
    /\ ret = NoRet

ProcessExitSurvey ==
    /\ call = "none"
    /\ processed' = process_exit_survey(raw)
    /\ call' = "process_exit_survey"
    /\ UNCHANGED <<download, session_state, raw, df, arg, ret>>

\* the normalized table laid out as an export: the header on the second line
AsExport(sheet) ==
    LET junk == [i \in 1..Len(sheet[1]) |-> Str(<<"#">>)]
    IN  <<junk, sheet[1], junk, junk>> \o Tail(sheet)

\* process_exit_survey on a table that is already normalized: on the buffer
\* it returned, or on that table laid out as an export
ProcessAgain ==
    /\ call = "process_exit_survey"
    /\ processed.err = ""
    /\ \/ /\ ret' = process_exit_survey(processed.sheet)
          /\ call' = "again_on_buffer"
       \/ /\ ret' = process_exit_survey(AsExport(processed.sheet))
          /\ call' = "again_on_export"
    /\ UNCHANGED <<download, session_state, raw, processed, df, arg>>

NextNorm == ProcessExitSurvey \/ ProcessAgain

SpecNorm == InitNorm /\ [][NextNorm]_vars

(***************************************************************************)
(* Claims about the normalizer (checked under SpecNorm).                   *)
(***************************************************************************)
\* the table read by process_exit_survey, and the table it returned
RawTable == read_excel(raw, {0, 2, 3})

Returned == read_excel(processed.sheet, {})

HasReturned == call # "none" /\ processed.err = ""

\* the columns whose missing values the normalizer fills
Covered(tbl) ==
    {i \in 1..Len(tbl.cols) : tbl.cols[i] = age_col \/ tbl.cols[i] \in Range(free_answer_cols)}
        \cup ColPrefix(tbl, <<"Q", "6">>) \cup ColPrefix(tbl, <<"Q", "7">>)
        \cup ColPrefix(tbl, <<"Q", "8">>) \cup ColPrefix(tbl, <<"Q", "9">>)

\* the raw rows that name a respondent
Survivors ==
    IF HasCol(RawTable, name_col)
    THEN SelectSeq(RawTable.rows, LAMBDA row : ~isna(row[ColIndex(RawTable, name_col)]))
    ELSE <<>>

\* every column process_exit_survey reads by name is in the raw table
SchemaComplete ==
    \A label \in {PS0_Start, PD0_Duration, name_col, age_col} \cup Range(free_answer_cols) :
        HasCol(RawTable, label)

\* C1: the returned table has no row with an empty respondent name and no
\* missing value in the age column, in a Q6, Q7, Q8 or Q9 column or in a
\* listed free-answer column, also when such a column has no value at all
\* among the surviving rows.
C1_NoMissingInCoveredColumns ==
    HasReturned =>
        \A r \in 1..Len(Returned.rows) :
            /\ ~isna(Returned.rows[r][ColIndex(Returned, name_col)])
            /\ \A i \in Covered(Returned) : ~isna(Returned.rows[r][i])

\* the raw table after the pruning of its columns (line 15)
Pruned == DropColumns(RawTable).tbl

\* the rows of a table that name a respondent, in their order
NamedRows(tbl) ==
    SelectSeq(tbl.rows, LAMBDA row : ~isna(row[ColIndex(tbl, name_col)]))

\* every cell given in the rows named is the cell of the same row and
\* column of the table returned
SameRows(named, cols, returned) ==
    /\ Len(returned.rows) = Len(named)
    /\ \A r \in 1..Len(returned.rows), i \in 1..Len(returned.cols) :
           \A c \in {named[r][CHOOSE j \in 1..Len(cols) : cols[j] = returned.cols[i]]} :
               ~isna(c) => returned.rows[r][i] = c

\* C14: process_exit_survey drops exactly the rows with an empty
\* respondent name, keeps the other rows in their order (every cell given in
\* the raw row is the cell of the returned row) and labels them 0..n-1.
C14_RowsFiltered ==
    HasReturned =>
        \A pruned \in {Pruned}, returned \in {Returned} :
            /\ SameRows(NamedRows(pruned), pruned.cols, returned)
            /\ dropna_index(pruned) = [r \in 1..Len(returned.rows) |-> r - 1]

Digits == {"0", "1", "2", "3", "4", "5", "6", "7", "8", "9"}

\* the label starts with Q and a question number
IsQuestionLabel(label) ==
    /\ label.t = "str"
    /\ Len(label.s) >= 2
    /\ label.s[1] = "Q"
    /\ label.s[2] \in Digits

\* C15: every column of the table returned by process_exit_survey is named
\* by the question convention: no service, unnamed or metadata column is left
\* and every other column that is not a question column is dropped too.
C15_OnlyQuestionColumns ==
    HasReturned =>
        \A i \in 1..Len(Returned.cols) : IsQuestionLabel(Returned.cols[i])

\* the cells of column label in the rows of named
CellsOf(named, cols, label) ==
    [r \in 1..Len(named) |-> named[r][CHOOSE j \in 1..Len(cols) : cols[j] = label]]

TruncatedMeanIs(q, k) ==
    \A total \in {CellSum(NonNa(q))} :
        /\ NonNa(q) # <<>>
        /\ k * total.d * Len(NonNa(q)) <= total.n
        /\ total.n < (k + 1) * total.d * Len(NonNa(q))

\* C17: in every returned column named Q7*, Q8* or Q9* a missing score of a
\* named respondent is the whole part of the mean of the scores the named
\* respondents gave in that column, and a score given is unchanged; nine
\* scores of 8 and one of 7 (mean 7.9) fill the gap with 7.
C17_ScoreTruncatedMean ==
    HasReturned =>
        \A pruned \in {Pruned}, returned \in {Returned} :
            /\ \A i \in ColPrefix(returned, <<"Q", "7">>) \cup ColPrefix(returned, <<"Q", "8">>)
                        \cup ColPrefix(returned, <<"Q", "9">>) :
                   \A given \in {CellsOf(NamedRows(pruned), pruned.cols, returned.cols[i])} :
                       \A r \in 1..Len(given) :
                           IF isna(given[r])
                           THEN /\ returned.rows[r][i].t = "num"
                                /\ returned.rows[r][i].d = 1
                                /\ TruncatedMeanIs(given, returned.rows[r][i].n)
                           ELSE returned.rows[r][i] = given[r]
            /\ raw = RawSheet({}, ScoreScenario) =>
                   CellsOf(returned.rows, returned.cols, Q7_1)[11] = Num(7)

\* C17 witness: the eleven respondents have been normalized; the Q7 gap is
\* 7 and the nine Q8 gaps (scores 6 and 9 given) are 7 too
C17_Witness_SevenPointNine ==
    /\ HasReturned
    /\ raw = RawSheet({}, ScoreScenario)
    /\ Returned.rows[11][ColIndex(Returned, Q7_1)] = Num(7)
    /\ Returned.rows[1][ColIndex(Returned, Q8_1)] = Num(7)

\* the cells of column i of the returned table are the cells given, and
\* the sentinel where none was given
FilledWith(pruned, returned, i, sentinel) ==
    \A given \in {CellsOf(NamedRows(pruned), pruned.cols, returned.cols[i])} :
        \A r \in 1..Len(given) :
            returned.rows[r][i] = IF isna(given[r]) THEN sentinel ELSE given[r]

\* C18: in the table returned by process_exit_survey a missing cell of a
\* column named Q6* is the "none" label the extractor tallies under, a missing
\* cell of a listed free-answer column is "No comments", and the cells given
\* in these columns are unchanged.
C18_Sentinels ==
    HasReturned =>
        \A pruned \in {Pruned}, returned \in {Returned} :
            \A i \in 1..Len(returned.cols) :
                /\ i \in ColPrefix(returned, <<"Q", "6">>)
                       => FilledWith(pruned, returned, i, Nikto)
                /\ returned.cols[i] \in Range(free_answer_cols)
                       => FilledWith(pruned, returned, i, NoComments)

\* C19: a column of the returned table that is in no class the normalizer
\* fills (not Q6*, not the age column, not Q7*, Q8*, Q9*, not a listed
\* free-answer column) holds the cells of the named raw rows as they were,
\* the missing ones still missing.
C19_OtherColumnsUntouched ==
    HasReturned =>
        \A pruned \in {Pruned}, returned \in {Returned} :
            \A i \in (1..Len(returned.cols)) \ Covered(returned) :
                CellsOf(returned.rows, returned.cols, returned.cols[i])
                    = CellsOf(NamedRows(pruned), pruned.cols, returned.cols[i])

\* C19 witness: the recommendation score is given by the first respondent
\* and not by the second, and is returned so
C19_Witness_GapKept ==
    /\ HasReturned
    /\ Len(Returned.rows) = 2
    /\ Returned.rows[1][ColIndex(Returned, nps_colname)] = Num(9)
    /\ isna(Returned.rows[2][ColIndex(Returned, nps_colname)])
    /\ Returned.rows[2][ColIndex(Returned, Q6_1)] = NiktoAsWritten

\* C14 witness: of two respondents the first has no name, and the table
\* returned holds the second one alone
C14_Witness_SecondRowKept ==
    /\ HasReturned
    /\ Len(RawTable.rows) = 2
    /\ isna(RawTable.rows[1][ColIndex(RawTable, name_col)])
    /\ RawTable.rows[1][ColIndex(RawTable, age_col)] = Num(2)
    /\ Len(Returned.rows) = 1
    /\ Returned.rows[1][ColIndex(Returned, age_col)] = Num(5)

\* C7: process_exit_survey on an already normalized table succeeds and
\* returns a table with the same columns, rows and cell values.
C7_Idempotent ==
    call \in {"again_on_buffer", "again_on_export"} =>
        ret.err = "" /\ read_excel(ret.sheet, {}) = Returned

\* C9: process_exit_survey fails with a SchemaError and returns no table
\* when the raw table lacks the Q16 column, lacks the Q15 column or has no
\* column of one of the groups Q7, Q8, Q9.
C9_SchemaErrorOnMissingColumn ==
    (/\ call # "none"
     /\ \/ ~HasCol(RawTable, name_col)
        \/ ~HasCol(RawTable, age_col)
        \/ \E g \in {"7", "8", "9"} : ColPrefix(RawTable, <<"Q", g>>) = {})
        => processed.err = "SchemaError"

\* C10: process_exit_survey fails with an EmptyDatasetError when no row
\* remains after the rows without a respondent name are dropped; it never
\* returns a table with zero rows.
C10_EmptyDatasetError ==
    /\ (call # "none" /\ SchemaComplete /\ Survivors = <<>>)
           => processed.err = "EmptyDatasetError"
    /\ HasReturned => Returned.rows # <<>>

(***************************************************************************)
(* ExitEmbaExtractor.  df is the table read at construction; a method call *)
(* leaves its argument in arg and in ret the exception raised (err) or the  *)
(* value returned (val).                                                   *)
(***************************************************************************)
Returns(v) == [err |-> "", val |-> v]

Throws(e) == [err |-> e, val |-> <<>>]

IsNumCol(tbl, i) == \A r \in 1..Len(tbl.rows) : tbl.rows[r][i].t # "str"

\* number of rows whose cell in column i is a number satisfying n/d >= k
CountGe(tbl, i, k) ==
    Cardinality({r \in 1..Len(tbl.rows) :
        tbl.rows[r][i].t = "num" /\ tbl.rows[r][i].n >= k * tbl.rows[r][i].d})

CountLe(tbl, i, k) ==
    Cardinality({r \in 1..Len(tbl.rows) :
        tbl.rows[r][i].t = "num" /\ tbl.rows[r][i].n <= k * tbl.rows[r][i].d})

\* _get_program_nps with the detractors counted by "< 6" instead of "<= 6"
get_program_nps_StrictCritics(tbl) ==
    IF ~HasCol(tbl, nps_colname) THEN Throws("KeyError")
    ELSE LET c == ColIndex(tbl, nps_colname)
         IN  IF ~IsNumCol(tbl, c) THEN Throws("TypeError")
             ELSE IF Len(tbl.rows) = 0 THEN Throws("ZeroDivisionError")
             ELSE Returns(TruncDiv((CountGe(tbl, c, 9) - CountLe(tbl, c, 5)) * 100,
                                   Len(tbl.rows)))

\* lines 150-156.  int() truncates the double (P - D) / N * 100 toward zero;
\* for fewer than 50 rows that double truncates to the same integer as the
\* exact quotient 100 (P - D) / N (the first difference is N = 50, P - D = 29).
get_program_nps(tbl) ==
    IF ~HasCol(tbl, nps_colname) THEN Throws("KeyError")
    ELSE LET c == ColIndex(tbl, nps_colname)
             num_students  == Len(tbl.rows)
             num_promoters == CountGe(tbl, c, 9)
             num_critics   == CountLe(tbl, c, 6)
         IN  IF ~IsNumCol(tbl, c) THEN Throws("TypeError")
             ELSE IF num_students = 0 THEN Throws("ZeroDivisionError")
             ELSE Returns(TruncDiv((num_promoters - num_critics) * 100, num_students))

GetProgramNps ==
    /\ call # "none"
    /\ ret' = get_program_nps(df)
    /\ call' = "_get_program_nps"
    /\ arg' = <<>>
    /\ UNCHANGED <<download, session_state, raw, processed, df>>

\* the colours of the bars
Grey == "#A9A9A9"

Highlight == "#FF007F"

\* the label of the local cohort
EMBA_35 == "EMBA-35"

\* lines 158-169: labels, values, colors; _get_program_nps may raise
get_industry_nps(tbl) ==
    LET nps_value == get_program_nps(tbl)
        labels == <<"Excellent by Quesionstar", EMBA_35, "Education", "Higher education">>
        values == <<30, nps_value.val, 42, 51>>
        colors == [[i \in 1..Len(values) |-> Grey] EXCEPT ![2] = Highlight]
    IN  IF nps_value.err # "" THEN nps_value
        ELSE Returns([labels |-> labels, values |-> values, colors |-> colors])

\* get_programs_nps highlighting the second bar, as get_industry_nps does
get_programs_nps_SecondBar(tbl) ==
    LET nps_value == get_program_nps(tbl)
        labels == <<"EMBA-31+32", "EMBA-33", "EMBA-34", EMBA_35,
                    "SKOLKOVO DEGREE", "SKOLKOVO EMBA average">>
        values == <<57, 47, 51, nps_value.val, 65, 77>>
        colors == [[i \in 1..Len(values) |-> Grey] EXCEPT ![2] = Highlight]
    IN  IF nps_value.err # "" THEN nps_value
        ELSE Returns([labels |-> labels, values |-> values, colors |-> colors])

\* lines 171-184
get_programs_nps(tbl) ==
    LET nps_value == get_program_nps(tbl)
        labels == <<"EMBA-31+32", "EMBA-33", "EMBA-34", EMBA_35,
                    "SKOLKOVO DEGREE", "SKOLKOVO EMBA average">>
        values == <<57, 47, 51, nps_value.val, 65, 77>>
        colors == [[i \in 1..Len(values) |-> Grey] EXCEPT ![4] = Highlight]
    IN  IF nps_value.err # "" THEN nps_value
        ELSE Returns([labels |-> labels, values |-> values, colors |-> colors])

GetIndustryNps ==
    /\ call # "none"
    /\ ret' = get_industry_nps(df)
    /\ call' = "get_industry_nps"
    /\ arg' = <<>>
    /\ UNCHANGED <<download, session_state, raw, processed, df>>

GetProgramsNps ==
    /\ call # "none"
    /\ ret' = get_programs_nps(df)
    /\ call' = "get_programs_nps"
    /\ arg' = <<>>
    /\ UNCHANGED <<download, session_state, raw, processed, df>>

(***************************************************************************)
(* The recommendation scores given to _get_program_nps.                    *)
(***************************************************************************)
MaxNpsRows == 4

NpsScores == {NaN, Num(0), Num(6), Num(7), Num(8), Num(9), Num(10)}

NpsTable(scores) ==
    [cols |-> <<name_col, nps_colname>>,
     rows |-> [r \in 1..Len(scores) |-> <<Str(<<"A", "n", "n">>), scores[r]>>]]

InitNps ==
    /\ \E scores \in SeqsUpTo(NpsScores, MaxNpsRows) : df = NpsTable(scores)
    /\ raw = <<>>
    /\ processed = NoOutcome
    /\ call = "__init__"
    /\ session_state = NoSession
    /\ NoDownload
    /\ arg = <<>>
    /\ ret = NoRet

NextNps == GetProgramNps \/ GetIndustryNps \/ GetProgramsNps

SpecNps == InitNps /\ [][NextNps]_vars

\* the scores of df and their classes
NpsColumn == Column(df, ColIndex(df, nps_colname))

Promoters == Cardinality({r \in 1..Len(df.rows) : NpsColumn[r] \in {Num(9), Num(10)}})

Detractors == Cardinality({r \in 1..Len(df.rows) : NpsColumn[r] \in {Num(0), Num(6)}})

NpsReturned == call = "_get_program_nps" /\ ret.err = ""

\* C2: _get_program_nps returns 100 (P - D) / N rounded to the nearest
\* integer (P: scores >= 9, D: scores <= 6, N: all rows), also when the
\* quotient is not an integer or is negative.
C2_NpsRoundedToNearest ==
    NpsReturned =>
        2 * Abs(ret.val * Len(df.rows) - 100 * (Promoters - Detractors)) <= Len(df.rows)

\* C3: for a non-empty table the value of _get_program_nps lies in
\* [-100, 100]; it is 100 when every respondent scores >= 9 and -100 when
\* every respondent scores <= 6.
C3_NpsBounds ==
    (call = "_get_program_nps" /\ df.rows # <<>>) =>
        /\ ret.err = ""
        /\ ret.val \in -100..100
        /\ Promoters = Len(df.rows) => ret.val = 100
        /\ Detractors = Len(df.rows) => ret.val = -100

\* C3 witness: a table of detractors only has been scored -100
C3_Witness_AllDetractors ==
    NpsReturned /\ Len(df.rows) = 3 /\ Detractors = 3 /\ ret.val = -100

\* the benchmark values of the two comparisons, the local value left out
Benchmarks ==
    IF call = "get_industry_nps" THEN <<30, 42, 51>> ELSE <<57, 47, 51, 65, 77>>

\* the position of the local cohort among the labels returned
LocalBar == CHOOSE i \in 1..Len(ret.val.labels) : ret.val.labels[i] = EMBA_35

\* C12: get_industry_nps and get_programs_nps return three lists of equal
\* length; exactly one entry has the highlight colour, it is the entry
\* labelled "EMBA-35" and its value is the NPS of the table; the other values
\* are the fixed benchmarks, whatever the table.
C12_NpsComparison ==
    (call \in {"get_industry_nps", "get_programs_nps"} /\ ret.err = "") =>
        /\ Len(ret.val.labels) = Len(ret.val.values)
        /\ Len(ret.val.values) = Len(ret.val.colors)
        /\ Cardinality({i \in 1..Len(ret.val.labels) : ret.val.labels[i] = EMBA_35}) = 1
        /\ \A i \in 1..Len(ret.val.colors) : ret.val.colors[i] = Highlight <=> i = LocalBar
        /\ ret.val.values[LocalBar]
               = TruncDiv(100 * (Promoters - Detractors), Len(df.rows))
        /\ Pick(ret.val.values, (1..Len(ret.val.values)) \ {LocalBar}, 1) = Benchmarks

\* C12 witness: get_programs_nps has returned its six bars for a table
\* whose NPS differs from every benchmark
C12_Witness_ProgramsNps ==
    /\ call = "get_programs_nps"
    /\ ret.err = ""
    /\ Len(ret.val.values) = 6
    /\ ret.val.values[4] = -50
    /\ ret.val.colors[4] = Highlight

(***************************************************************************)
(* DataFrame objects.  A heap is the sequence of the tables of the objects *)
(* alive during a call; object 1 is self.df.  A selection or a conversion  *)
(* makes a new object, an assignment changes the object it is made on.     *)
(***************************************************************************)
self_df == 1

\* a new object holding tbl: the heap, and the object
NewFrame(heap, tbl) == [heap |-> Append(heap, tbl), obj |-> Len(heap) + 1]

\* obj[cols] with the selection being the object itself, cut to the columns
getitem_cols_InPlace(heap, obj, keep) ==
    [heap |-> [heap EXCEPT ![obj] = KeepCols(heap[obj], keep)], obj |-> obj]

\* obj[cols] for a list of columns: a new object with a copy of the columns
getitem_cols(heap, obj, keep) == NewFrame(heap, KeepCols(heap[obj], keep))

\* obj.columns = labels (the caller has checked the length)
set_columns(heap, obj, labels) == [heap EXCEPT ![obj].cols = labels]

\* obj[label] = values, for a label that obj does not have: a new last column
setitem_col(heap, obj, label, values) ==
    [heap EXCEPT ![obj] =
        [cols |-> Append(heap[obj].cols, label),
         rows |-> [r \in 1..Len(heap[obj].rows) |-> Append(heap[obj].rows[r], values[r])]]]

(***************************************************************************)
(* get_pilos                                                               *)
(***************************************************************************)
\* the number of labels in new_colnames
NumPilos == 10

\* range(1, 11): the rating columns of the result
MaxRating == 10

\* the positions of the labels of new_colnames in alphabetical order, the
\* order groupby gives the rows of the result
PilosOrder == <<2, 8, 4, 9, 3, 7, 10, 6, 1, 5>>

\* the positions of a set of columns, in table order
RECURSIVE SetToSeq(_)
SetToSeq(S) ==
    IF S = {} THEN <<>>
    ELSE LET m == CHOOSE x \in S : \A y \in S : x <= y
         IN  <<m>> \o SetToSeq(S \ {m})

\* the scores that occur in the Q3 columns cols of tbl
ScoresGiven(tbl, cols) ==
    {TruncDiv(tbl.rows[r][cols[k]].n, tbl.rows[r][cols[k]].d) :
        r \in 1..Len(tbl.rows), k \in 1..Len(cols)}

\* get_pilos without the reindex: unstack gives a column for each score that
\* occurs
get_pilos_NoReindex(tbl) ==
    LET q3_cols == SetToSeq(ColPrefix(tbl, <<"Q", "3">>))
        score(r, k) == TruncDiv(tbl.rows[r][q3_cols[k]].n, tbl.rows[r][q3_cols[k]].d)
        count(k, v) == Cardinality({r \in 1..Len(tbl.rows) : score(r, k) = v})
    IN  IF Len(q3_cols) # NumPilos THEN Throws("ValueError")
        ELSE IF \E r \in 1..Len(tbl.rows), k \in 1..NumPilos :
                    tbl.rows[r][q3_cols[k]].t # "num"
        THEN Throws("ValueError")
        ELSE IF tbl.rows = <<>> THEN Returns(<<>>)
        ELSE Returns([j \in 1..NumPilos |->
                         [param  |-> PilosOrder[j],
                          counts |-> [v \in ScoresGiven(tbl, q3_cols) |->
                                         count(PilosOrder[j], v)]]])

\* lines 186-210: the Q3 columns get the ten labels (a length mismatch
\* raises), astype(int) raises on a missing value or a string and truncates a
\* fraction, and the counts of the scores are laid out over the columns 1..10
get_pilos(tbl) ==
    LET q3_cols == SetToSeq(ColPrefix(tbl, <<"Q", "3">>))
        score(r, k) == TruncDiv(tbl.rows[r][q3_cols[k]].n, tbl.rows[r][q3_cols[k]].d)
        count(k, v) == Cardinality({r \in 1..Len(tbl.rows) : score(r, k) = v})
    IN  IF Len(q3_cols) # NumPilos THEN Throws("ValueError")
        ELSE IF \E r \in 1..Len(tbl.rows), k \in 1..NumPilos :
                    tbl.rows[r][q3_cols[k]].t # "num"
        THEN Throws("ValueError")
        ELSE IF tbl.rows = <<>> THEN Returns(<<>>)
        ELSE Returns([j \in 1..NumPilos |->
                         [param  |-> PilosOrder[j],
                          counts |-> [v \in 1..MaxRating |-> count(PilosOrder[j], v)]]])

\* the k-th label of new_colnames
PiloLabel(k) == Str(<<"P", "I", "L", "O", " ">> \o DecimalStr(k))

\* lines 200-201: the objects after the selection of the Q3 columns and the
\* assignment of the labels to it (a length mismatch raises and assigns
\* nothing); the later steps make new objects of their own
pilos_frames(tbl) ==
    LET q3_cols == ColPrefix(tbl, <<"Q", "3">>)
        PILOs_df == getitem_cols(<<tbl>>, self_df, q3_cols)
    IN  IF Cardinality(q3_cols) # NumPilos THEN PILOs_df.heap
        ELSE set_columns(PILOs_df.heap, PILOs_df.obj, [k \in 1..NumPilos |-> PiloLabel(k)])

GetPilos ==
    /\ call # "none"
    /\ ret' = get_pilos(df)
    /\ df' = pilos_frames(df)[self_df]
    /\ call' = "get_pilos"
    /\ arg' = <<>>
    /\ UNCHANGED <<download, session_state, raw, processed>>

(***************************************************************************)
(* The ratings given to get_pilos: every respondent rates all dimensions   *)
(* alike (v) but for the first or the last one (w); ratings outside 1..10  *)
(* and missing ratings occur; one variant of the table lacks a Q3 column.  *)
(***************************************************************************)
MaxPiloRows == 2

PiloRatings == {NaN, Num(0), Num(1), Num(10), Num(11)}

PiloParams == [v : PiloRatings, d : {1, NumPilos}, w : PiloRatings]

Q3Label(k) == Str(<<"Q", "3", ".">> \o DecimalStr(k) \o <<" ">>)

PiloTable(ncols, params) ==
    [cols |-> <<name_col>> \o [k \in 1..ncols |-> Q3Label(k)],
     rows |-> [r \in 1..Len(params) |->
                  <<Str(<<"A", "n", "n">>)>>
                      \o [k \in 1..ncols |->
                             IF k = params[r].d THEN params[r].w ELSE params[r].v]]]

InitPilos ==
    /\ \E ncols \in {NumPilos - 1, NumPilos}, params \in SeqsUpTo(PiloParams, MaxPiloRows) :
           df = PiloTable(ncols, params)
    /\ raw = <<>>
    /\ processed = NoOutcome
    /\ call = "__init__"
    /\ session_state = NoSession
    /\ NoDownload
    /\ arg = <<>>
    /\ ret = NoRet

NextPilos == GetPilos

SpecPilos == InitPilos /\ [][NextPilos]_vars

\* the respondents who gave a rating for the k-th dimension (Q3 column)
Raters(k) ==
    {r \in 1..Len(df.rows) : ~isna(df.rows[r][SetToSeq(ColPrefix(df, <<"Q", "3">>))[k]])}

\* the table returned by get_pilos has one row for each of the ten
\* dimensions, each with a count (0 included) in each of the columns 1..10
TenRowsOfTenCounts ==
    /\ Len(ret.val) = NumPilos
    /\ \A p \in 1..NumPilos :
           Cardinality({j \in 1..Len(ret.val) : ret.val[j].param = p}) = 1
    /\ \A j \in 1..Len(ret.val) :
           /\ DOMAIN ret.val[j].counts = 1..MaxRating
           /\ \A v \in 1..MaxRating : ret.val[j].counts[v] \in 0..Len(df.rows)

C4_HistogramSums ==
    (call = "get_pilos" /\ ret.err = "") =>
        \A j \in 1..Len(ret.val) :
            SumSeq(ret.val[j].counts) = Cardinality(Raters(ret.val[j].param))

(***************************************************************************)
(* get_overall_csi / calulate_csi.  The arithmetic is exact: a mean is the *)
(* fraction it denotes.  A dict is the sequence of its entries.            *)
(***************************************************************************)
\* f"Q{i}"
QPrefix(i) == <<"Q">> \o DecimalStr(i)

\* the default of the parameter csi_Qinds
csi_Qinds == <<2, 3, 5, 7, 8, 9>>

\* the number of labels in new_colnames of get_overall_csi
NumCsiLabels == 6

Min(a, b) == IF a < b THEN a ELSE b

AnyNa(q) == \E i \in 1..Len(q) : isna(q[i])

\* DataFrame.mean(axis=1) for row r over the columns cols: the mean of the
\* non-missing cells, NaN when there is none (and when there is no column)
RowMean(tbl, r, cols) == Mean([k \in 1..Len(cols) |-> tbl.rows[r][cols[k]]])

\* get_overall_csi with the mean taken down the columns (axis=0): one value
\* for each column of the block
get_overall_csi_ColumnMeans(tbl, qinds) ==
    LET n == Min(NumCsiLabels, Len(qinds))
        discrete_rate_cols == [k \in 1..n |-> SetToSeq(ColPrefix(tbl, QPrefix(qinds[k])))]
    IN  IF \E k \in 1..n, r \in 1..Len(tbl.rows) :
               \E c \in Range(discrete_rate_cols[k]) : tbl.rows[r][c].t = "str"
        THEN Throws("TypeError")
        ELSE Returns([k \in 1..n |->
                         [name   |-> k,
                          values |-> [c \in 1..Len(discrete_rate_cols[k]) |->
                                         Mean(Column(tbl, discrete_rate_cols[k][c]))]]])

\* lines 70-90: zip pairs the labels with the blocks of the given question
\* ids; the mean of a block with a text cell raises
get_overall_csi(tbl, qinds) ==
    LET n == Min(NumCsiLabels, Len(qinds))
        discrete_rate_cols == [k \in 1..n |-> SetToSeq(ColPrefix(tbl, QPrefix(qinds[k])))]
    IN  IF \E k \in 1..n, r \in 1..Len(tbl.rows) :
               \E c \in Range(discrete_rate_cols[k]) : tbl.rows[r][c].t = "str"
        THEN Throws("TypeError")
        ELSE Returns([k \in 1..n |->
                         [name   |-> k,
                          values |-> [r \in 1..Len(tbl.rows) |->
                                         RowMean(tbl, r, discrete_rate_cols[k])]]])

\* sum(q) / len(q) for a non-empty q: a NaN in q makes the sum NaN
SumOverLen(q) ==
    IF AnyNa(q) THEN NaN ELSE Frac(CellSum(q).n, CellSum(q).d * Len(q))

\* calulate_csi with all values pooled into one mean
calulate_csi_Pooled(csi_data) ==
    LET sums  == [k \in 1..Len(csi_data) |->
                     IF AnyNa(csi_data[k].values) THEN NaN ELSE CellSum(csi_data[k].values)]
        total == SumSeq([k \in 1..Len(csi_data) |-> Len(csi_data[k].values)])
    IN  IF csi_data = <<>> \/ \E k \in 1..Len(csi_data) : csi_data[k].values = <<>>
        THEN Throws("ZeroDivisionError")
        ELSE Returns(IF AnyNa(sums) THEN NaN
                     ELSE Frac(CellSum(sums).n, CellSum(sums).d * total))

\* lines 92-96: sum / len of an empty block, or of no block, divides by zero
calulate_csi(csi_data) ==
    LET component_csis == [k \in 1..Len(csi_data) |-> SumOverLen(csi_data[k].values)]
    IN  IF csi_data = <<>> \/ \E k \in 1..Len(csi_data) : csi_data[k].values = <<>>
        THEN Throws("ZeroDivisionError")
        ELSE Returns(SumOverLen(component_csis))

GetOverallCsi ==
    /\ call # "none"
    /\ \E qinds \in {csi_Qinds, <<2, 3>>, <<3>>, <<>>} :
           /\ arg' = qinds
           /\ ret' = get_overall_csi(df, qinds)
    /\ call' = "get_overall_csi"
    /\ UNCHANGED <<download, session_state, raw, processed, df>>

(***************************************************************************)
(* The rating tables given to get_overall_csi, and the lists given to      *)
(* calulate_csi directly.                                                  *)
(***************************************************************************)
MaxCsiRows == 2

Ann == Str(<<"A", "n", "n">>)

\* the k-th sub-item column of question q
QLabel(q, k) == Str(QPrefix(q) \o <<".">> \o DecimalStr(k) \o <<" ">>)

\* block A: one item, ten respondents scoring 10; block B: nine items, all 0
CsiExample ==
    [cols |-> <<name_col, QLabel(2, 1)>> \o [k \in 1..9 |-> QLabel(3, k)],
     rows |-> [r \in 1..10 |-> <<Ann, Num(10)>> \o [k \in 1..9 |-> Num(0)]]]

\* one respondent: the Q2 item and the two Q3 items, given or missing
CsiRowParams ==
    [q2 : {NaN, Num(0), Num(10)}, q3a : {NaN, Num(0), Num(10)}, q3b : {NaN, Num(10)}]

\* full: the table also has one item of each of the blocks Q5, Q7, Q8, Q9
CsiTable(full, params) ==
    [cols |-> <<name_col, QLabel(2, 1), QLabel(3, 1), QLabel(3, 2)>>
                  \o (IF full THEN <<QLabel(5, 1), QLabel(7, 1), QLabel(8, 1), QLabel(9, 1)>>
                      ELSE <<>>),
     rows |-> [r \in 1..Len(params) |->
                  <<Ann, params[r].q2, params[r].q3a, params[r].q3b>>
                      \o (IF full THEN <<Num(10), Num(10), Num(8), Num(9)>> ELSE <<>>)]]

\* dicts of lists of different lengths
CsiLists ==
    LET lists == {<<>>, <<Num(10)>>, <<Num(0), Num(10)>>, <<Num(0), Num(0), Num(0)>>}
    IN  {<<>>} \cup {<<[name |-> 1, values |-> a]>> : a \in lists}
            \cup {<<[name |-> 1, values |-> a], [name |-> 2, values |-> b]>> :
                     a \in lists, b \in lists}

\* calulate_csi on the dict get_overall_csi just returned (as the dashboard
\* calls it), or on a dict of lists
CalulateCsi ==
    /\ call \in {"__init__", "get_overall_csi"}
    /\ \E csi_data \in
               IF call = "__init__" THEN CsiLists
               ELSE IF ret.err = "" THEN {ret.val} ELSE {} :
           /\ arg' = csi_data
           /\ ret' = calulate_csi(csi_data)
    /\ call' = "calulate_csi"
    /\ UNCHANGED <<download, session_state, raw, processed, df>>

InitCsi ==
    /\ \/ df = CsiExample
       \/ \E full \in BOOLEAN, params \in SeqsUpTo(CsiRowParams, MaxCsiRows) :
              df = CsiTable(full, params)
    /\ raw = <<>>
    /\ processed = NoOutcome
    /\ call = "__init__"
    /\ session_state = NoSession
    /\ NoDownload
    /\ arg = <<>>
    /\ ret = NoRet

\* the calls of the dashboard's rating section: get_overall_csi on the table
\* just read, then calulate_csi
NextCsi == (call = "__init__" /\ GetOverallCsi) \/ CalulateCsi

SpecCsi == InitCsi /\ [][NextCsi]_vars

\* the values of the k-th block of the dict given to calulate_csi
Block(k) == arg[k].values

\* the mean of the k-th block
BlockMean(k) == Frac(CellSum(Block(k)).n, CellSum(Block(k)).d * Len(Block(k)))

\* C5: calulate_csi returns the unweighted mean of the means of the blocks
\* of its input, (mean(b1) + ... + mean(bk)) / k; for block A (1 item) scored
\* 10 and block B (9 items) scored 0 by ten respondents, get_overall_csi for
\* these two blocks followed by calulate_csi gives exactly 5.
C5_MeanOfBlockMeans ==
    (call = "calulate_csi" /\ ret.err = "") =>
        /\ (\A k \in 1..Len(arg) : ~AnyNa(Block(k))) =>
               LET total == CellSum([k \in 1..Len(arg) |-> BlockMean(k)])
               IN  ret.val.t = "num" /\ ret.val.n * total.d * Len(arg) = total.n * ret.val.d
        /\ (df = CsiExample /\ arg = get_overall_csi(df, <<2, 3>>).val) => ret.val = Num(5)

\* C5 witness: the example has been scored 5 from its two blocks
C5_Witness_Example ==
    /\ call = "calulate_csi"
    /\ df = CsiExample
    /\ Len(arg) = 2
    /\ Block(1) = [r \in 1..10 |-> Num(10)]
    /\ Block(2) = [r \in 1..10 |-> Num(0)]
    /\ ret = Returns(Num(5))

\* the columns of question q: "Q", the number q, then no further digit
BlockColumns(tbl, q) ==
    {i \in 1..Len(tbl.cols) :
        /\ tbl.cols[i].t = "str"
        /\ StartsWith(tbl.cols[i].s, QPrefix(q))
        /\ Len(tbl.cols[i].s) > Len(QPrefix(q))
               => tbl.cols[i].s[Len(QPrefix(q)) + 1]
                      \notin {"0", "1", "2", "3", "4", "5", "6", "7", "8", "9"}}

\* v is the mean of the cells given in q, NaN when none is given
IsMeanOf(v, q) ==
    \A given \in {NonNa(q)} :
        IF given = <<>> THEN isna(v)
        ELSE \A total \in {CellSum(given)} :
                 v.t = "num" /\ v.n * total.d * Len(given) = total.n * v.d

RECURSIVE Unique(_)
Unique(q) ==
    IF q = <<>> THEN <<>>
    ELSE LET front == Unique(SubSeq(q, 1, Len(q) - 1))
         IN  IF q[Len(q)] \in Range(front) THEN front ELSE Append(front, q[Len(q)])

\* a stable insertion of the entry e by its count, ascending
RECURSIVE InsertEntry(_, _)
InsertEntry(e, sorted) ==
    IF sorted = <<>> THEN <<e>>
    ELSE IF sorted[Len(sorted)][2] <= e[2] THEN Append(sorted, e)
    ELSE Append(InsertEntry(e, SubSeq(sorted, 1, Len(sorted) - 1)), sorted[Len(sorted)])

\* Series.sort_values(ascending=True); entries of equal count keep their order
RECURSIVE SortAscending(_)
SortAscending(q) ==
    IF q = <<>> THEN <<>>
    ELSE InsertEntry(q[Len(q)], SortAscending(SubSeq(q, 1, Len(q) - 1)))

Reverse(q) == [i \in 1..Len(q) |-> q[Len(q) + 1 - i]]

\* Series.value_counts(): missing values are not counted, the most frequent
\* value comes first
value_counts(q) ==
    LET values == Unique(NonNa(q))
        counts == [i \in 1..Len(values) |->
                      <<values[i], Cardinality({j \in 1..Len(q) : q[j] = values[i]})>>]
    IN  Reverse(SortAscending(Reverse(counts)))

\* series[label] = n: the entry of the label is overwritten, or appended
SetEntry(series, label, n) ==
    IF \E i \in 1..Len(series) : series[i][1] = label
    THEN [i \in 1..Len(series) |-> IF series[i][1] = label THEN <<label, n>> ELSE series[i]]
    ELSE Append(series, <<label, n>>)

\* series[label] += n
AddToEntry(series, label, n) ==
    IF \E i \in 1..Len(series) : series[i][1] = label
    THEN [i \in 1..Len(series) |->
             IF series[i][1] = label THEN <<label, series[i][2] + n>> ELSE series[i]]
    ELSE Append(series, <<label, n>>)

\* the rows of tbl whose cells in all the columns cols equal 0
AllZeroRows(tbl, cols) ==
    {r \in 1..Len(tbl.rows) : \A k \in 1..Len(cols) : tbl.rows[r][cols[k]] = Num(0)}

\* the nonzero cells of the columns cols in the rows that are not all-zero,
\* row by row
RECURSIVE Flatten(_, _, _)
Flatten(tbl, cols, r) ==
    IF r > Len(tbl.rows) THEN <<>>
    ELSE (IF r \in AllZeroRows(tbl, cols) THEN <<>>
          ELSE SelectSeq([k \in 1..Len(cols) |-> tbl.rows[r][cols[k]]],
                         LAMBDA c : c # Num(0)))
             \o Flatten(tbl, cols, r + 1)

\* get_top_lectors with the entries ordered by count descending
get_top_lectors_Descending(tbl) ==
    LET lectors_cols == SetToSeq(ColPrefix(tbl, <<"Q", "6">>))
        zeros_count  == Cardinality(AllZeroRows(tbl, lectors_cols))
        lectors      == Flatten(tbl, lectors_cols, 1)
    IN  Returns(Reverse(SortAscending(SetEntry(value_counts(lectors), Nikto, zeros_count))))

\* get_top_lectors adding the all-zero rows to the tally of the "none" label
get_top_lectors_AddToTally(tbl) ==
    LET lectors_cols == SetToSeq(ColPrefix(tbl, <<"Q", "6">>))
        zeros_count  == Cardinality(AllZeroRows(tbl, lectors_cols))
        lectors      == Flatten(tbl, lectors_cols, 1)
    IN  Returns(SortAscending(AddToEntry(value_counts(lectors), Nikto, zeros_count)))

\* lines 212-224
get_top_lectors(tbl) ==
    LET lectors_cols == SetToSeq(ColPrefix(tbl, <<"Q", "6">>))
        zeros_count  == Cardinality(AllZeroRows(tbl, lectors_cols))
        lectors      == Flatten(tbl, lectors_cols, 1)
    IN  Returns(SortAscending(SetEntry(value_counts(lectors), Nikto, zeros_count)))

GetTopLectors ==
    /\ call # "none"
    /\ ret' = get_top_lectors(df)
    /\ call' = "get_top_lectors"
    /\ arg' = <<>>
    /\ UNCHANGED <<download, session_state, raw, processed, df>>

(***************************************************************************)
(* The lecturer choices given to get_top_lectors: a choice is 0 (none), a  *)
(* lecturer, the "none" label itself, or missing; a table has              *)
(* two choice columns, one, or none.                                       *)
(***************************************************************************)
MaxLectorRows == 3

LectorChoices == {Num(0), Str(<<"P", "r", "o", "f">>), Nikto, NaN}

LectorTable(ncols, choices) ==
    [cols |-> <<name_col>> \o [k \in 1..ncols |-> QLabel(6, k)],
     rows |-> [r \in 1..Len(choices) |->
                  <<Ann>> \o [k \in 1..ncols |-> choices[r][k]]]]

InitLectors ==
    /\ \E ncols \in 0..2, choices \in SeqsUpTo([1..2 -> LectorChoices], MaxLectorRows) :
           df = LectorTable(ncols, choices)
    /\ raw = <<>>
    /\ processed = NoOutcome
    /\ call = "__init__"
    /\ session_state = NoSession
    /\ NoDownload
    /\ arg = <<>>
    /\ ret = NoRet

NextLectors == GetTopLectors

SpecLectors == InitLectors /\ [][NextLectors]_vars

\* the rows of df whose every Q6 cell is zero
ZeroRows ==
    {r \in 1..Len(df.rows) :
        \A i \in ColPrefix(df, <<"Q", "6">>) : df.rows[r][i] = Num(0)}

\* C6: in the result of get_top_lectors the tally under the "none" label
\* is the number of rows whose every Q6 column is zero, for every table, also
\* one with no all-zero row and one where every row is all-zero.
C6_NoneTally ==
    call = "get_top_lectors" =>
        /\ ret.err = ""
        /\ Cardinality({i \in 1..Len(ret.val) : ret.val[i][1] = Nikto}) = 1
        /\ \A i \in 1..Len(ret.val) :
               ret.val[i][1] = Nikto => ret.val[i][2] = Cardinality(ZeroRows)

\* the lecturer-choice cells <<row, column>> of the rows that are not
\* all-zero which hold the choice v
CellsHolding(v) ==
    {rc \in ((1..Len(df.rows)) \ ZeroRows) \X ColPrefix(df, <<"Q", "6">>) :
        df.rows[rc[1]][rc[2]] = v}

\* the choices made: the cells of these rows that are given and not 0
Choices ==
    {df.rows[rc[1]][rc[2]] :
        rc \in {x \in ((1..Len(df.rows)) \ ZeroRows) \X ColPrefix(df, <<"Q", "6">>) :
                   ~isna(df.rows[x[1]][x[2]]) /\ df.rows[x[1]][x[2]] # Num(0)}}

\* the result has one entry for each of the choices, with the number of
\* cells holding it, no other entry but the "none" entry, and the counts
\* do not decrease along the result
TalliedAscending(choices) ==
    /\ ret.err = ""
    /\ \A v \in choices :
           Cardinality({i \in 1..Len(ret.val) : ret.val[i][1] = v}) = 1
    /\ \A i \in 1..Len(ret.val) :
           /\ ret.val[i][1] \in choices \cup {Nikto}
           /\ ret.val[i][1] \in choices
                  => ret.val[i][2] = Cardinality(CellsHolding(ret.val[i][1]))
           /\ i < Len(ret.val) => ret.val[i][2] <= ret.val[i + 1][2]

C6_Witness_SentinelBesideZeroRow ==
    /\ call = "get_top_lectors"
    /\ Cardinality(ZeroRows) = 1
    /\ \E r \in 1..Len(df.rows), i \in ColPrefix(df, <<"Q", "6">>) : df.rows[r][i] = Nikto
    /\ \E i \in 1..Len(ret.val) : ret.val[i] = <<Nikto, 1>>

(***************************************************************************)
(* The rating-block extractors (_get_csi and its five callers) and         *)
(* get_job_distr.                                                          *)
(***************************************************************************)
\* lines 98-102: zip pairs the first num_colnames labels with the columns of
\* the question id, as far as both go
get_csi(tbl, num_colnames, csi_Qind) ==
    LET csi_cols == SetToSeq(ColPrefix(tbl, QPrefix(csi_Qind)))
    IN  Returns([k \in 1..Min(num_colnames, Len(csi_cols)) |->
                    [name |-> k, values |-> Column(tbl, csi_cols[k])]])

\* lines 104-147: the number of labels and the question id of each caller
get_basic_csi(tbl) == get_csi(tbl, 3, 2)

get_design_csi(tbl) == get_csi(tbl, 7, 5)

get_intern_modules_csi(tbl) == get_csi(tbl, 4, 7)

get_support_csi(tbl) == get_csi(tbl, 2, 8)

get_group_csi(tbl) == get_csi(tbl, 4, 9)

\* dtype == "int64": a column read from a sheet holds integers only and has
\* no missing value (a column without rows is of dtype object)
IsInt64(tbl, i) ==
    /\ tbl.rows # <<>>
    /\ \A r \in 1..Len(tbl.rows) : tbl.rows[r][i].t = "num" /\ tbl.rows[r][i].d = 1

\* get_job_distr keeping the columns whose sum is zero (>= 0 for > 0)
get_job_distr_KeepZero(tbl) ==
    LET job_cols == SetToSeq({i \in ColPrefix(tbl, QPrefix(13)) : IsInt64(tbl, i)})
        jobs_counts ==
            [k \in 1..Len(job_cols) |->
                <<tbl.cols[job_cols[k]],
                  SumSeq([r \in 1..Len(tbl.rows) |-> tbl.rows[r][job_cols[k]].n])>>]
        positive == SelectSeq(jobs_counts, LAMBDA e : e[2] >= 0)
    IN  Returns(Reverse(SortAscending(Reverse(positive))))

\* lines 58-67: the positive column sums, the largest first
get_job_distr(tbl) ==
    LET job_cols == SetToSeq({i \in ColPrefix(tbl, QPrefix(13)) : IsInt64(tbl, i)})
        jobs_counts ==
            [k \in 1..Len(job_cols) |->
                <<tbl.cols[job_cols[k]],
                  SumSeq([r \in 1..Len(tbl.rows) |-> tbl.rows[r][job_cols[k]].n])>>]
        positive == SelectSeq(jobs_counts, LAMBDA e : e[2] > 0)
    IN  Returns(Reverse(SortAscending(Reverse(positive))))

GetBasicCsi ==
    /\ call # "none"
    /\ ret' = get_basic_csi(df)
    /\ call' = "get_basic_csi"
    /\ arg' = <<>>
    /\ UNCHANGED <<download, session_state, raw, processed, df>>

GetDesignCsi ==
    /\ call # "none"
    /\ ret' = get_design_csi(df)
    /\ call' = "get_design_csi"
    /\ arg' = <<>>
    /\ UNCHANGED <<download, session_state, raw, processed, df>>

GetInternModulesCsi ==
    /\ call # "none"
    /\ ret' = get_intern_modules_csi(df)
    /\ call' = "get_intern_modules_csi"
    /\ arg' = <<>>
    /\ UNCHANGED <<download, session_state, raw, processed, df>>

GetSupportCsi ==
    /\ call # "none"
    /\ ret' = get_support_csi(df)
    /\ call' = "get_support_csi"
    /\ arg' = <<>>
    /\ UNCHANGED <<download, session_state, raw, processed, df>>

GetGroupCsi ==
    /\ call # "none"
    /\ ret' = get_group_csi(df)
    /\ call' = "get_group_csi"
    /\ arg' = <<>>
    /\ UNCHANGED <<download, session_state, raw, processed, df>>

GetJobDistr ==
    /\ call # "none"
    /\ ret' = get_job_distr(df)
    /\ call' = "get_job_distr"
    /\ arg' = <<>>
    /\ UNCHANGED <<download, session_state, raw, processed, df>>

(***************************************************************************)
(* Tables that hold the columns of some of the question ids only: one item *)
(* of each question id present (ten of Q3), every cell of a respondent     *)
(* the same number.                                                        *)
(***************************************************************************)
MaxExtractRows == 1

QuestionIds == <<2, 3, 5, 6, 7, 8, 9, 13>>

ItemsOf(q) == IF q = 3 THEN NumPilos ELSE 1

RECURSIVE QuestionCols(_, _)
QuestionCols(present, k) ==
    IF k > Len(QuestionIds) THEN <<>>
    ELSE (IF QuestionIds[k] \in present
          THEN [j \in 1..ItemsOf(QuestionIds[k]) |-> QLabel(QuestionIds[k], j)]
          ELSE <<>>)
             \o QuestionCols(present, k + 1)

ExtractTable(present, cells) ==
    LET cols == <<name_col>> \o QuestionCols(present, 1)
    IN  [cols |-> cols,
         rows |-> [r \in 1..Len(cells) |->
                      [i \in 1..Len(cols) |-> IF i = 1 THEN Ann ELSE cells[r]]]]

InitExtract ==
    /\ \E present \in SUBSET Range(QuestionIds),
          cells \in SeqsUpTo({Num(0), Num(7)}, MaxExtractRows) :
           df = ExtractTable(present, cells)
    /\ raw = <<>>
    /\ processed = NoOutcome
    /\ call = "__init__"
    /\ session_state = NoSession
    /\ NoDownload
    /\ arg = <<>>
    /\ ret = NoRet

NextExtract ==
    \/ GetBasicCsi
    \/ GetDesignCsi
    \/ GetInternModulesCsi
    \/ GetSupportCsi
    \/ GetGroupCsi
    \/ GetOverallCsi
    \/ GetJobDistr
    \/ GetTopLectors
    \/ GetPilos

SpecExtract == InitExtract /\ [][NextExtract]_vars

\* the question-id prefixes the last call selected its columns with
CalledPrefixes ==
    CASE call = "get_basic_csi" -> {QPrefix(2)}
      [] call = "get_design_csi" -> {QPrefix(5)}
      [] call = "get_intern_modules_csi" -> {QPrefix(7)}
      [] call = "get_support_csi" -> {QPrefix(8)}
      [] call = "get_group_csi" -> {QPrefix(9)}
      [] call = "get_overall_csi" -> {QPrefix(arg[k]) : k \in 1..Len(arg)}
      [] call = "get_job_distr" -> {QPrefix(13)}
      [] call = "get_top_lectors" -> {QPrefix(6)}
      [] call = "get_pilos" -> {QPrefix(3)}
      [] OTHER -> {}

\* the rating-block extractors: <<number of labels, question id>>
RatingBlocks ==
    [get_basic_csi |-> <<3, 2>>, get_design_csi |-> <<7, 5>>,
     get_intern_modules_csi |-> <<4, 7>>, get_support_csi |-> <<2, 8>>,
     get_group_csi |-> <<4, 9>>]

\* C22: a rating-block extractor that returns has one entry for each of
\* its labels, the k-th label with the unchanged values of the k-th column
\* of its question id (the columns of that question and no other); it does
\* not return with a label or a column left out when their numbers differ.
C22_OneEntryPerLabel ==
    (call \in DOMAIN RatingBlocks /\ ret.err = "") =>
        \A cols \in {SetToSeq(BlockColumns(df, RatingBlocks[call][2]))} :
            /\ Len(cols) = RatingBlocks[call][1]
            /\ Len(ret.val) = RatingBlocks[call][1]
            /\ \A k \in 1..Len(ret.val) :
                   ret.val[k] = [name |-> k, values |-> Column(df, cols[k])]

\* C8: an extraction method fails with a ColumnNotFoundError when its
\* question-id prefix matches no column of the table; it returns no result,
\* empty or not, in that case.
C8_ColumnNotFoundError ==
    \A prefix \in CalledPrefixes :
        ColPrefix(df, prefix) = {} => ret.err = "ColumnNotFoundError"

(***************************************************************************)
(* get_collaborators                                                       *)
(***************************************************************************)
Bool(b) == [t |-> "bool", n |-> IF b THEN 1 ELSE 0, d |-> 1, s |-> <<>>]

\* the number of labels in new_colnames of get_collaborators
NumCollabNames == 7

\* the k-th label of new_colnames; the last one names the derived column
CollabLabel(k) == Str(<<"c", "o", "l", "l", "a", "b", " ">> \o DecimalStr(k))

\* the label the derived column is added under
Otkazyvayus == Str(<<"O", "t", "k", "a", "z", "y", "v", "a", "y", "u", "s">>)

\* get_collaborators without the replacement of "No comments"
replace_no_comments_Skipped(tbl) == tbl

\* DataFrame.replace("No comments", False)
replace_no_comments(tbl) ==
    [tbl EXCEPT !.rows =
        [r \in 1..Len(tbl.rows) |->
            [i \in 1..Len(tbl.cols) |->
                IF tbl.rows[r][i] = NoComments THEN Bool(FALSE) ELSE tbl.rows[r][i]]]]

\* bool(x) of a cell: zero and the empty string are false, and so is False;
\* a missing value (a float NaN) is true
Truth(c) ==
    CASE c.t = "num" -> c.n # 0
      [] c.t = "bool" -> c.n = 1
      [] c.t = "str" -> c.s # <<>>
      [] OTHER -> TRUE

\* DataFrame.astype(bool)
astype_bool(tbl) ==
    [tbl EXCEPT !.rows =
        [r \in 1..Len(tbl.rows) |->
            [i \in 1..Len(tbl.cols) |-> Bool(Truth(tbl.rows[r][i]))]]]

\* lines 236-244: the objects after the selection of the option columns, its
\* two conversions, the added column and the assignment of the labels (a
\* length mismatch raises and assigns nothing); all_events is the last object
collaborators_frames(tbl) ==
    LET events_cols ==
            {i \in ColPrefix(tbl, <<"Q", "1", "1">>) :
                ~StartsWith(tbl.cols[i].s, <<"Q", "1", "1", ".", "1", ".">>)}
        selected   == getitem_cols(<<tbl>>, self_df, events_cols)
        replaced   == NewFrame(selected.heap, replace_no_comments(selected.heap[selected.obj]))
        all_events == NewFrame(replaced.heap, astype_bool(replaced.heap[replaced.obj]))
        options    == all_events.heap[all_events.obj]
        declined   == [r \in 1..Len(options.rows) |->
                          Bool(\A i \in 1..Len(options.cols) : options.rows[r][i] = Bool(FALSE))]
        added      == setitem_col(all_events.heap, all_events.obj, Otkazyvayus, declined)
    IN  IF Cardinality(events_cols) + 1 # NumCollabNames THEN added
        ELSE set_columns(added, all_events.obj, [k \in 1..NumCollabNames |-> CollabLabel(k)])

\* lines 226-250: the number of true cells of each label, the smallest first
get_collaborators(tbl) ==
    LET frames     == collaborators_frames(tbl)
        all_events == frames[Len(frames)]
    IN  IF Len(all_events.cols) # NumCollabNames THEN Throws("ValueError")
        ELSE Returns(SortAscending(
                 [k \in 1..NumCollabNames |->
                     <<CollabLabel(k),
                       Cardinality({r \in 1..Len(all_events.rows) :
                                       all_events.rows[r][k] = Bool(TRUE)})>>]))

GetCollaborators ==
    /\ call # "none"
    /\ ret' = get_collaborators(df)
    /\ df' = collaborators_frames(df)[self_df]
    /\ call' = "get_collaborators"
    /\ arg' = <<>>
    /\ UNCHANGED <<download, session_state, raw, processed>>

(***************************************************************************)
(* get_age_distr / get_industry_distr.  A code outside the code table is   *)
(* mapped to a missing label.                                              *)
(***************************************************************************)
\* data_extractors.py line 21, up to the first character after the question id
age_colname == Str(<<"Q", "1", "5", " ", "U+1F534">>)

age_groups ==
    << Str(<<"1", "8", "-", "2", "4">>), Str(<<"2", "5", "-", "3", "4">>),
       Str(<<"3", "5", "-", "4", "4">>), Str(<<"4", "5", "-", "5", "4">>),
       Str(<<"5", "5", "+">>) >>

\* the number of entries of industry_codes
NumIndustryCodes == 19

\* the label of the industry code k
IndustryLabel(k) == Str(<<"i", "n", "d", "u", "s", "t", "r", "y", " ">> \o DecimalStr(k))

\* index.to_series().map(age_groups)
MapAge(c) ==
    IF c.t = "num" /\ c.d = 1 /\ c.n \in 1..Len(age_groups) THEN age_groups[c.n] ELSE NaN

\* index.to_series().map(industry_codes)
MapIndustry(c) ==
    IF c.t = "num" /\ c.d = 1 /\ c.n \in 1..NumIndustryCodes THEN IndustryLabel(c.n) ELSE NaN

\* lines 13-24
get_age_distr(tbl) ==
    IF ~HasCol(tbl, age_colname) THEN Throws("KeyError")
    ELSE LET age_counts ==
                 value_counts([r \in 1..Len(tbl.rows) |->
                                  tbl.rows[r][ColIndex(tbl, age_colname)]])
         IN  Returns([i \in 1..Len(age_counts) |->
                         <<MapAge(age_counts[i][1]), age_counts[i][2]>>])

\* lines 26-56: the first integer column of the question; [0] of an empty
\* list raises
get_industry_distr(tbl) ==
    LET candidates == SetToSeq({i \in ColPrefix(tbl, QPrefix(14)) : IsInt64(tbl, i)})
    IN  IF candidates = <<>> THEN Throws("IndexError")
        ELSE LET industry_counts ==
                     value_counts([r \in 1..Len(tbl.rows) |-> tbl.rows[r][candidates[1]]])
             IN  Returns([i \in 1..Len(industry_counts) |->
                             <<MapIndustry(industry_counts[i][1]), industry_counts[i][2]>>])

GetAgeDistr ==
    /\ call # "none"
    /\ ret' = get_age_distr(df)
    /\ call' = "get_age_distr"
    /\ arg' = <<>>
    /\ UNCHANGED <<download, session_state, raw, processed, df>>

GetIndustryDistr ==
    /\ call # "none"
    /\ ret' = get_industry_distr(df)
    /\ call' = "get_industry_distr"
    /\ arg' = <<>>
    /\ UNCHANGED <<download, session_state, raw, processed, df>>

(***************************************************************************)
(* An extractor in use: the table is read from the normalized file at      *)
(* construction, then the methods are called in any order, any number of   *)
(* times.  The table holds one item of each question (ten of Q3 and six of *)
(* Q11, or none of them); every cell of a respondent is the same number.   *)
(***************************************************************************)
MaxFrameRows == 2

FrameCols(present) ==
    <<name_col, age_colname, QLabel(2, 1)>>
        \o (IF 3 \in present THEN [k \in 1..NumPilos |-> QLabel(3, k)] ELSE <<>>)
        \o <<QLabel(5, 1), QLabel(6, 1), QLabel(7, 1), QLabel(8, 1), QLabel(9, 1)>>
        \o (IF 11 \in present THEN [k \in 1..(NumCollabNames - 1) |-> QLabel(11, k)] ELSE <<>>)
        \o <<nps_colname, QLabel(13, 1), QLabel(14, 1)>>

FrameTable(present, cells) ==
    [cols |-> FrameCols(present),
     rows |-> [r \in 1..Len(cells) |->
                  [i \in 1..Len(FrameCols(present)) |-> IF i = 1 THEN Ann ELSE cells[r]]]]

\* __init__: self.df = pd.read_excel(table_path)
InitFrame ==
    /\ \E present \in SUBSET {3, 11},
          cells \in SeqsUpTo({Num(0), Num(2), Num(9)}, MaxFrameRows) :
           processed = [err |-> "", sheet |-> to_excel(FrameTable(present, cells))]
    /\ df = read_excel(processed.sheet, {})
    /\ raw = <<>>
    /\ call = "__init__"
    /\ session_state = NoSession
    /\ NoDownload
    /\ arg = <<>>
    /\ ret = NoRet

NextFrame ==
    \/ GetAgeDistr
    \/ GetIndustryDistr
    \/ GetJobDistr
    \/ GetOverallCsi
    \/ (call = "get_overall_csi" /\ CalulateCsi)
    \/ GetBasicCsi
    \/ GetDesignCsi
    \/ GetInternModulesCsi
    \/ GetSupportCsi
    \/ GetGroupCsi
    \/ GetProgramNps
    \/ GetIndustryNps
    \/ GetProgramsNps
    \/ GetPilos
    \/ GetTopLectors
    \/ GetCollaborators

SpecFrame == InitFrame /\ [][NextFrame]_vars

\* the table read at construction
Constructed == read_excel(processed.sheet, {})

\* what the method m returns for the argument a on the table tbl
ResultOn(m, a, tbl) ==
    CASE m = "get_age_distr" -> get_age_distr(tbl)
      [] m = "get_industry_distr" -> get_industry_distr(tbl)
      [] m = "get_job_distr" -> get_job_distr(tbl)
      [] m = "get_overall_csi" -> get_overall_csi(tbl, a)
      [] m = "calulate_csi" -> calulate_csi(a)
      [] m = "get_basic_csi" -> get_basic_csi(tbl)
      [] m = "get_design_csi" -> get_design_csi(tbl)
      [] m = "get_intern_modules_csi" -> get_intern_modules_csi(tbl)
      [] m = "get_support_csi" -> get_support_csi(tbl)
      [] m = "get_group_csi" -> get_group_csi(tbl)
      [] m = "_get_program_nps" -> get_program_nps(tbl)
      [] m = "get_industry_nps" -> get_industry_nps(tbl)
      [] m = "get_programs_nps" -> get_programs_nps(tbl)
      [] m = "get_pilos" -> get_pilos(tbl)
      [] m = "get_top_lectors" -> get_top_lectors(tbl)
      [] m = "get_collaborators" -> get_collaborators(tbl)

\* C11: after any sequence of extraction calls the table of the extractor
\* has the columns, column names and cell values it had at construction, and
\* the last call returned what it returns on the table at construction.
C11_TableUnchanged ==
    call # "none" =>
        /\ df = Constructed
        /\ call # "__init__" => ret = ResultOn(call, arg, Constructed)

\* C11 witness: get_pilos has renamed the columns of its selection and
\* returned, on a table that also holds the option columns of get_collaborators
C11_Witness_AfterPilos ==
    /\ call = "get_pilos"
    /\ ret.err = ""
    /\ Len(ret.val) = NumPilos
    /\ Cardinality(ColPrefix(df, <<"Q", "3">>)) = NumPilos
    /\ Cardinality(ColPrefix(df, <<"Q", "1", "1">>)) = NumCollabNames - 1
    /\ Len(df.rows) = 2

(***************************************************************************)
(* The dashboard (app/emba_exit_dashboard.py).  Streamlit runs the script  *)
(* from top to bottom when the session opens and after every action of the *)
(* user on a widget; st.session_state lives across the runs.  raw is the   *)
(* file in the uploader, arg the sections chosen in the sidebar, processed *)
(* the buffer process_exit_survey returned in the last run, ret what the   *)
(* last run drew or the exception that ended it.                           *)
(***************************************************************************)
MaxUploadRows == 2

\* excel_file is None: no file in the uploader
NoFile == <<>>

\* the sections of the sidebar that are modelled (lines 15-22)
Sections == {"NPS", "Pairings"}

\* a named respondent who scores the recommendation with 9, and one who
\* leaves it (and the lecturer choice and the Q10 comment) empty
UploadRows ==
    {[name |-> Str(<<"A", "n", "n">>), age |-> Num(2), q7 |-> Num(7), gaps |-> g] :
        g \in {"none", "text"}}

\* the files the user has: complete exports; process_exit_survey raises on
\* the one without a respondent (no mean of the rating columns)
Uploads == {RawSheet({}, rows) : rows \in SeqsUpTo(UploadRows, MaxUploadRows)}

\* lines 34-35
EnsureFlag(ss) ==
    IF "survey_processed" \in DOMAIN ss THEN ss
    ELSE ss @@ ("survey_processed" :> FALSE)

\* ExitEmbaExtractor(processed_file) (data_extractors.py lines 9-10)
ExitEmbaExtractor(buf) == [df |-> read_excel(buf.sheet, {})]

\* lines 37-41 with the flag set before process_exit_survey is called
ProcessUpload_FlagFirst(ss, excel_file) ==
    IF excel_file # NoFile /\ ~ss.survey_processed
    THEN CHOOSE out \in
             {IF processed_file.err # ""
              THEN [exc |-> processed_file.err,
                    ss |-> ("survey_processed" :> TRUE) @@ ss,
                    processed |-> processed_file]
              ELSE [exc |-> "",
                    ss |-> ("survey_processed" :> TRUE)
                               @@ ("emba_extractor" :> ExitEmbaExtractor(processed_file)),
                    processed |-> processed_file] :
                 processed_file \in {process_exit_survey(excel_file)}} : TRUE
    ELSE [exc |-> "", ss |-> ss, processed |-> NoOutcome]

\* lines 37-41: [exc, ss, processed]; an exception of process_exit_survey
\* ends the run before anything is stored
ProcessUpload(ss, excel_file) ==
    IF excel_file # NoFile /\ ~ss.survey_processed
    THEN CHOOSE out \in
             {IF processed_file.err # ""
              THEN [exc |-> processed_file.err, ss |-> ss, processed |-> processed_file]
              ELSE [exc |-> "",
                    ss |-> ("survey_processed" :> TRUE)
                               @@ ("emba_extractor" :> ExitEmbaExtractor(processed_file)),
                    processed |-> processed_file] :
                 processed_file \in {process_exit_survey(excel_file)}} : TRUE
    ELSE [exc |-> "", ss |-> ss, processed |-> NoOutcome]

\* sections/nps.py: the two comparisons drawn by render
nps_render(emba_extractor) ==
    CHOOSE out \in
        {IF industry.err # "" THEN industry
         ELSE IF programs.err # "" THEN programs
         ELSE Returns(<<industry.val, programs.val>>) :
            industry \in {get_industry_nps(emba_extractor.df)},
            programs \in {get_programs_nps(emba_extractor.df)}} : TRUE

\* lines 44-58 (43-85 in the later version): what the run draws
MainRender(ss, section_types) ==
    IF ss.survey_processed /\ "NPS" \in section_types
    THEN nps_render(ss.emba_extractor)
    ELSE Returns(<<>>)

\* one run of the script
ScriptRun(ss, excel_file, section_types) ==
    CHOOSE out \in
        {[session_state |-> p.ss,
          processed |-> p.processed,
          call |-> IF p.processed = NoOutcome THEN "render" ELSE "process_exit_survey",
          ret |-> IF p.exc # "" THEN Throws(p.exc) ELSE MainRender(p.ss, section_types)] :
            p \in {ProcessUpload(EnsureFlag(ss), excel_file)}} : TRUE

\* the state after the run that follows an action of the user
Rerun(excel_file, section_types) ==
    \E out \in {ScriptRun(session_state, excel_file, section_types)} :
        /\ raw' = excel_file
        /\ arg' = section_types
        /\ session_state' = out.session_state
        /\ processed' = out.processed
        /\ call' = out.call
        /\ ret' = out.ret
        /\ UNCHANGED <<download, df>>

\* the session opens: the first run, with no file and no section chosen
InitDash ==
    /\ raw = NoFile
    /\ arg = {}
    /\ session_state = ScriptRun(NoSession, NoFile, {}).session_state
    /\ NoDownload
    /\ processed = NoOutcome
    /\ df = NoTable
    /\ call = "render"
    /\ ret = Returns(<<>>)

\* the user puts a file into the empty uploader
UploadFile == raw = NoFile /\ \E f \in Uploads : Rerun(f, arg)

\* the user puts a different file in the place of the uploaded one
ReplaceFile == raw # NoFile /\ \E f \in Uploads \ {raw} : Rerun(f, arg)

\* the user takes the file out of the uploader
RemoveFile == raw # NoFile /\ Rerun(NoFile, arg)

\* the user changes the choice of sections; the upload is as it was
SelectSections == \E t \in (SUBSET Sections) \ {arg} : Rerun(raw, t)

NextDash == UploadFile \/ ReplaceFile \/ RemoveFile \/ SelectSections

SpecDash == InitDash /\ [][NextDash]_vars

\* the table of the extractor that is built from a file
ExtractorOf(file) == ExitEmbaExtractor(process_exit_survey(file)).df

\* C20: in a session of the dashboard a run after which the upload is the
\* one whose extractor the session holds does not normalize again, and after
\* a run that finds a different file in the uploader (one that
\* process_exit_survey accepts) the extractor of the session is the one built
\* from that file.
C20_OncePerUpload ==
    [][/\ (raw' = raw /\ raw # NoFile /\ session_state.survey_processed)
              => call' # "process_exit_survey"
       /\ (raw' # raw /\ raw' # NoFile /\ process_exit_survey(raw').err = "")
              => /\ "emba_extractor" \in DOMAIN session_state'
                 /\ session_state'.emba_extractor.df = ExtractorOf(raw')]_vars

\* the session holds an extractor, and it is the one built from a file that
\* process_exit_survey accepts
HoldsExtractor ==
    /\ "emba_extractor" \in DOMAIN session_state
    /\ \E f \in Uploads :
           /\ process_exit_survey(f).err = ""
           /\ session_state.emba_extractor.df = ExtractorOf(f)

\* the last run called process_exit_survey and it raised
ProcessingFailed == call = "process_exit_survey" /\ processed.err # ""

\* C28: in every state of a session of the dashboard survey_processed is
\* true only if the session holds an extractor built from a file that was
\* normalized without an exception; after a run in which process_exit_survey
\* raised the flag is false, no extractor is stored and the run drew nothing;
\* while the flag is false no section is drawn; and a run that finds a file
\* in the uploader while the flag is false calls process_exit_survey (again).
C28_FlagOnlyWithExtractor ==
    /\ [](/\ "survey_processed" \in DOMAIN session_state
          /\ session_state.survey_processed => HoldsExtractor
          /\ ProcessingFailed =>
                 /\ ~session_state.survey_processed
                 /\ "emba_extractor" \notin DOMAIN session_state
                 /\ ret = Throws(processed.err)
          /\ ~session_state.survey_processed =>
                 (ret.err # "" \/ ret = Returns(<<>>)))
    /\ [][(raw' # NoFile /\ ~session_state.survey_processed)
              => call' = "process_exit_survey"]_vars

\* C28 witness: the NPS section is chosen and the run that found the file
\* without a respondent ended in the exception of process_exit_survey
C28_Witness_FailedUpload ==
    /\ ProcessingFailed
    /\ "NPS" \in arg
    /\ raw # NoFile
    /\ ~session_state.survey_processed

(***************************************************************************)
(* The pipeline of the dashboard on one export: process_exit_survey, then  *)
(* ExitEmbaExtractor on the buffer it returned, then the extraction        *)
(* methods of the sections that read the lecturer choice, the age and the  *)
(* industry.                                                               *)
(***************************************************************************)
MaxPipeRows == 2

\* the header of the export: the columns of RawHeader and the industry code
PipeHeader == Append(RawHeader, QLabel(14, 1))

\* one named respondent: the age code, the lecturer choice (0 for none, a
\* lecturer, the word the extractor tallies "none" under, or nothing) and the
\* industry code, given or missing
PipeRowParams ==
    [age : {NaN, Num(2)},
     q6  : {NaN, Num(0), Str(<<"P", "r", "o", "f">>), Nikto},
     q14 : {NaN, Num(1), Num(19)}]

PipeCell(label, p) ==
    CASE label = age_col -> p.age
      [] label = Q6_1 -> p.q6
      [] label = QLabel(14, 1) -> p.q14
      [] OTHER -> RawCell(label, [name |-> Ann, age |-> NaN, q7 |-> Num(7), gaps |-> "none"])

PipeSheet(params) ==
    LET junk == [i \in 1..Len(PipeHeader) |-> Str(<<"#">>)]
    IN  <<junk, PipeHeader, junk, junk>>
            \o [r \in 1..Len(params) |->
                   [i \in 1..Len(PipeHeader) |-> PipeCell(PipeHeader[i], params[r])]]

InitPipe ==
    /\ \E params \in SeqsUpTo(PipeRowParams, MaxPipeRows) : raw = PipeSheet(params)
    /\ processed = NoOutcome
    /\ df = NoTable
    /\ call = "none"
    /\ session_state = NoSession
    /\ NoDownload
    /\ arg = <<>>
    /\ ret = NoRet

\* emba_extractor = ExitEmbaExtractor(processed_file)
Construct ==
    /\ call = "process_exit_survey"
    /\ processed.err = ""
    /\ df' = ExitEmbaExtractor(processed).df
    /\ call' = "__init__"
    /\ UNCHANGED <<download, session_state, raw, processed, arg, ret>>

\* the extractor exists
Extracting == call \notin {"none", "process_exit_survey"}

NextPipe ==
    \/ ProcessExitSurvey
    \/ Construct
    \/ (Extracting /\ GetTopLectors)
    \/ (Extracting /\ GetAgeDistr)
    \/ (Extracting /\ GetIndustryDistr)

SpecPipe == InitPipe /\ [][NextPipe]_vars

\* the sum of the tallies of a result
TallySum == SumSeq([i \in 1..Len(ret.val) |-> ret.val[i][2]])

\* C24: on a table produced by process_exit_survey the tallies of
\* get_top_lectors sum to the number of all-zero rows plus the number of
\* nonzero lecturer-choice cells of the other rows, also when a cell holds the
\* label the extractor tallies "none" under.
C24_NoSelectionLost ==
    call = "get_top_lectors" =>
        /\ ret.err = ""
        /\ TallySum = Cardinality(ZeroRows) + Cardinality(UNION {CellsHolding(v) : v \in Choices})

\* the result maps labels of the code table to the number of respondents
\* whose code (codes[r] for respondent r) has that label, and counts everyone
DistrOf(labels, codes) ==
    /\ ret.err = ""
    /\ \A i \in 1..Len(ret.val) :
           /\ ret.val[i][1] \in Range(labels)
           /\ ret.val[i][2]
                  = Cardinality({r \in 1..Len(codes) :
                        /\ codes[r].t = "num" /\ codes[r].d = 1
                        /\ codes[r].n \in 1..Len(labels)
                        /\ labels[codes[r].n] = ret.val[i][1]})
    /\ TallySum = Len(codes)

\* C26: on a table produced by process_exit_survey (a missing age filled
\* or not) every key of the results of get_age_distr and get_industry_distr
\* is a label of the code table of the question, the count under a label is
\* the number of respondents whose code maps to it, and the counts sum to the
\* number of respondents.
C26_CountsByCodeTable ==
    /\ call = "get_age_distr"
           => DistrOf(age_groups,
                      Column(df, CHOOSE i \in 1..Len(df.cols) : i \in BlockColumns(df, 15)))
    /\ call = "get_industry_distr"
           => DistrOf([k \in 1..NumIndustryCodes |-> IndustryLabel(k)],
                      Column(df, ColIndex(df, QLabel(14, 1))))

(***************************************************************************)
(* The tables given to get_job_distr: three job-function columns (the      *)
(* third may have a cell that is not answered) and the free answer Q13.6.O *)
(***************************************************************************)
MaxJobRows == 2

JobRowParams == [j1 : {Num(0), Num(1)}, j2 : {Num(0), Num(1)}, j3 : {Num(0), Num(1), NaN}]

JobTable(params) ==
    [cols |-> <<name_col>> \o [k \in 1..3 |-> QLabel(13, k)] \o <<free_answer_cols[7]>>,
     rows |-> [r \in 1..Len(params) |->
                  <<Ann, params[r].j1, params[r].j2, params[r].j3, NoComments>>]]

InitJobs ==
    /\ \E params \in SeqsUpTo(JobRowParams, MaxJobRows) : df = JobTable(params)
    /\ raw = <<>>
    /\ processed = NoOutcome
    /\ call = "__init__"
    /\ session_state = NoSession
    /\ NoDownload
    /\ arg = <<>>
    /\ ret = NoRet

NextJobs == GetJobDistr

SpecJobs == InitJobs /\ [][NextJobs]_vars

\* the sum of the cells of column i of df
ColumnSum(i) == CellSum(Column(df, i)).n

\* the integer-typed columns named Q13... whose sum is greater than zero
PositiveJobCols ==
    {i \in ColPrefix(df, <<"Q", "1", "3">>) : IsInt64(df, i) /\ ColumnSum(i) > 0}

\* C27: get_job_distr returns for each integer-typed column named Q13...
\* whose sum is greater than zero the sum of the column, under the name of
\* the column, and nothing else, the largest sum first; a column with sum 0
\* is not in the result.
C27_PositiveSumsDescending ==
    call = "get_job_distr" =>
        /\ ret.err = ""
        /\ Len(ret.val) = Cardinality(PositiveJobCols)
        /\ \A i \in PositiveJobCols :
               \E k \in 1..Len(ret.val) : ret.val[k] = <<df.cols[i], ColumnSum(i)>>
        /\ \A k \in 1..Len(ret.val) : ret.val[k][2] > 0
        /\ \A k \in 1..(Len(ret.val) - 1) : ret.val[k][2] >= ret.val[k + 1][2]

\* C27 witness: of three job functions the second is named by both
\* respondents, the third by one, the first by none
C27_Witness_TwoOfThree ==
    /\ call = "get_job_distr"
    /\ Len(df.rows) = 2
    /\ ret = Returns(<< <<QLabel(13, 2), 2>>, <<QLabel(13, 3), 1>> >>)

(***************************************************************************)
(* The tables given to get_collaborators: the five option columns Q11.1 to *)
(* Q11.5, the free answer to the first option ("Q11.1.O") and the free     *)
(* answer to the fifth ("Q11.5.O"), which is the sixth option.             *)
(***************************************************************************)
MaxCollabRows == 2

\* one respondent: the first option (1, 0 or not answered), the second,
\* and the two free answers, given or "No comments"
CollabRowParams ==
    [o1 : {Num(0), Num(1), NaN},
     o2 : {Num(0), Num(1)},
     t1 : {NoComments, Str(<<"t", "x", "t">>)},
     t5 : {NoComments, Str(<<"t", "x", "t">>)}]

CollabTable(params) ==
    [cols |-> <<name_col>> \o [k \in 1..5 |-> QLabel(11, k)]
                  \o <<free_answer_cols[5], free_answer_cols[6]>>,
     rows |-> [r \in 1..Len(params) |->
                  <<Ann, params[r].o1, params[r].o2, Num(0), Num(0), Num(0),
                    params[r].t1, params[r].t5>>]]

InitCollab ==
    /\ \E params \in SeqsUpTo(CollabRowParams, MaxCollabRows) : df = CollabTable(params)
    /\ raw = <<>>
    /\ processed = NoOutcome
    /\ call = "__init__"
    /\ session_state = NoSession
    /\ NoDownload
    /\ arg = <<>>
    /\ ret = NoRet

NextCollab == GetCollaborators

SpecCollab == InitCollab /\ [][NextCollab]_vars

\* the option columns: named Q11..., but not Q11.1. ...
OptionCols ==
    SetToSeq({i \in ColPrefix(df, <<"Q", "1", "1">>) :
                 ~StartsWith(df.cols[i].s, <<"Q", "1", "1", ".", "1", ".">>)})

\* respondent r has option k: the cell is neither 0 nor "No comments" (a
\* cell that is not answered counts as had)
Selected(r, k) == df.rows[r][OptionCols[k]] \notin {Num(0), NoComments}

Declined(r) == \A k \in 1..Len(OptionCols) : ~Selected(r, k)

\* C25: get_collaborators takes "No comments" for false, counts a
\* respondent as "declined" exactly when each of the six options is false, and
\* returns for each option and for "declined" the number of respondents for
\* whom it is true, by count ascending; "declined" and the respondents with an
\* option add up to all respondents; a column named Q11.1. ... is no option.
C25_OptionsAndDeclined ==
    call = "get_collaborators" =>
        /\ ret.err = ""
        /\ Len(OptionCols) = NumCollabNames - 1
        /\ Len(ret.val) = NumCollabNames
        /\ \A k \in 1..(NumCollabNames - 1) :
               \E i \in 1..Len(ret.val) :
                   ret.val[i] = <<CollabLabel(k),
                                  Cardinality({r \in 1..Len(df.rows) : Selected(r, k)})>>
        /\ \E i \in 1..Len(ret.val) :
               /\ ret.val[i] = <<CollabLabel(NumCollabNames),
                                 Cardinality({r \in 1..Len(df.rows) : Declined(r)})>>
               /\ ret.val[i][2]
                      + Cardinality({r \in 1..Len(df.rows) :
                                        \E k \in 1..Len(OptionCols) : Selected(r, k)})
                      = Len(df.rows)
        /\ \A i \in 1..(Len(ret.val) - 1) : ret.val[i][2] <= ret.val[i + 1][2]

\* C25 witness: the first respondent has no option and wrote a free
\* answer to the first one only, the second has the second option
C25_Witness_OneDeclined ==
    /\ call = "get_collaborators"
    /\ Len(df.rows) = 2
    /\ df.rows[1] = <<Ann, Num(0), Num(0), Num(0), Num(0), Num(0),
                      Str(<<"t", "x", "t">>), NoComments>>
    /\ df.rows[2][3] = Num(1)
    /\ ret.err = ""
    /\ \E i \in 1..Len(ret.val) : ret.val[i] = <<CollabLabel(NumCollabNames), 1>>
    /\ \E i \in 1..Len(ret.val) : ret.val[i] = <<CollabLabel(2), 1>>
    /\ ret.val[1][2] = 0

(***************************************************************************)
(* sections/download.py: generate_docx, one step of it at a time.  The     *)
(* user presses the button of the section; call is the place generate_docx *)
(* has reached, ret what it returned or the exception that ended it.  The  *)
(* image files that a call leaves behind stay in the directory of          *)
(* temporary files when the button is pressed again.                       *)
(***************************************************************************)
MaxLeaked == 2

\* the figures create_all_plots returns (lines 140-202)
NumPlots == 14

\* tempfile.NamedTemporaryFile(delete=False, suffix=".png"): a name that no
\* file of the directory has
NamedTemporaryFile(dir) == CHOOSE n \in 1..(Cardinality(dir) + 1) : n \notin dir

InitDocx ==
    /\ raw = NoFile
    /\ processed = NoOutcome
    /\ df = NoTable
    /\ arg = {}
    /\ session_state = NoSession
    /\ NoDownload
    /\ call = "generate_docx"
    /\ ret = NoRet

\* line 216: create_all_plots(emba_extractor) returns its figures
CreateAllPlots ==
    /\ call = "generate_docx"
    /\ plots' = NumPlots
    /\ call' = "for"
    /\ UNCHANGED <<raw, processed, df, arg, ret, session_state, tmpdir, img_path, doc>>

\* line 216: create_all_plots(emba_extractor) raises (an extraction method
\* or a plot does), before any image is written
CreateAllPlotsRaises ==
    /\ call = "generate_docx"
    /\ call' = "raised"
    /\ ret' = Throws("create_all_plots")
    /\ UNCHANGED <<raw, processed, df, arg, session_state, download>>

\* lines 217, 27-30: save_plot_as_image creates the file, writes the image
\* and returns the path
SavePlotAsImage ==
    /\ call = "for"
    /\ plots > 0
    /\ \E name \in {NamedTemporaryFile(tmpdir)} :
          /\ tmpdir' = tmpdir \cup {name}
          /\ img_path' = name
    /\ call' = "add_picture"
    /\ UNCHANGED <<raw, processed, df, arg, ret, session_state, plots, doc>>

\* lines 217, 27-29: pio.write_image raises; the file of line 27 is there
WriteImageRaises ==
    /\ call = "for"
    /\ plots > 0
    /\ tmpdir' = tmpdir \cup {NamedTemporaryFile(tmpdir)}
    /\ call' = "raised"
    /\ ret' = Throws("write_image")
    /\ UNCHANGED <<raw, processed, df, arg, session_state, plots, img_path, doc>>

\* line 218: doc.add_picture(img_path, width=Inches(5.5))
AddPicture ==
    /\ call = "add_picture"
    /\ doc' = doc + 1
    /\ call' = "remove"
    /\ UNCHANGED <<raw, processed, df, arg, ret, session_state, tmpdir, plots, img_path>>

\* line 218: doc.add_picture raises
AddPictureRaises ==
    /\ call = "add_picture"
    /\ call' = "raised"
    /\ ret' = Throws("add_picture")
    /\ UNCHANGED <<raw, processed, df, arg, session_state, download>>

\* line 219: os.remove(img_path), and on to the next figure
Remove ==
    /\ call = "remove"
    /\ tmpdir' = tmpdir \ {img_path}
    /\ plots' = plots - 1
    /\ call' = "for"
    /\ UNCHANGED <<raw, processed, df, arg, ret, session_state, img_path, doc>>

\* lines 221-224: the figures are through; the document is saved
SaveDocument ==
    /\ call = "for"
    /\ plots = 0
    /\ call' = "returned"
    /\ ret' = Returns(doc)
    /\ UNCHANGED <<raw, processed, df, arg, session_state, download>>

\* emba_exit_dashboard.py lines 76-78: the button is pressed again
PressButton ==
    /\ call \in {"returned", "raised"}
    /\ Cardinality(tmpdir) < MaxLeaked
    /\ call' = "generate_docx"
    /\ ret' = NoRet
    /\ plots' = 0
    /\ img_path' = 0
    /\ doc' = 0
    /\ UNCHANGED <<raw, processed, df, arg, session_state, tmpdir>>

NextDocx ==
    \/ CreateAllPlots
    \/ CreateAllPlotsRaises
    \/ SavePlotAsImage
    \/ WriteImageRaises
    \/ AddPicture
    \/ AddPictureRaises
    \/ Remove
    \/ SaveDocument
    \/ PressButton

SpecDocx == InitDocx /\ [][NextDocx]_vars

\* C29: while generate_docx runs there is at most one image file of
\* save_plot_as_image in the directory of temporary files, and once
\* generate_docx has finished there is none, whether it returned or ended in
\* an exception of writing an image or of adding a picture.
C29_NoTempImageLeft ==
    /\ Cardinality(tmpdir) <= 1
    /\ call \in {"returned", "raised"} => tmpdir = {}

(***************************************************************************)
(* backend/plotter.py: PlotGenerator.make_hbarplot.  arg is score_counts,  *)
(* a dict as the sequence of its entries <<category, count>>; a colour of  *)
(* the palette is the point of the "Greens" scale it is sampled at.        *)
(***************************************************************************)
MaxBars == 3

MaxCount == 3

\* the categories of the bars
BarNames == <<"lecturer A", "lecturer B", "lecturer C", "lecturer D", "lecturer E">>

\* the mappings given to make_hbarplot: up to MaxBars categories with counts
ScoreCounts ==
    {[k \in 1..Len(counts) |-> <<BarNames[k], counts[k]>>] :
        counts \in SeqsUpTo(0..MaxCount, MaxBars)}

\* lines 277-279 (163-165): sample_colorscale("Greens", [i / (num_colors - 1)
\* for i in range(num_colors)]); the division raises when num_colors is 1
Palette(num_colors) ==
    IF num_colors = 1 THEN Throws("ZeroDivisionError")
    ELSE Returns([i \in 1..num_colors |-> Frac(i - 1, num_colors - 1)])

\* lines 275-298 (162-181): the figure, as the bars and their colours
make_hbarplot(score_counts) ==
    LET values == [k \in 1..Len(score_counts) |-> score_counts[k][2]]
        votes == SetToSeq(Range(values))
        palette == Palette(Len(votes))
    IN  IF palette.err # "" THEN palette
        ELSE Returns([x |-> values,
                      y |-> [k \in 1..Len(score_counts) |-> score_counts[k][1]],
                      marker_color |->
                          [k \in 1..Len(values) |->
                              palette.val[CHOOSE i \in 1..Len(votes) :
                                              votes[i] = values[k]]]])

InitHbar ==
    /\ arg \in ScoreCounts
    /\ raw = <<>>
    /\ processed = NoOutcome
    /\ df = NoTable
    /\ session_state = NoSession
    /\ NoDownload
    /\ call = "none"
    /\ ret = NoRet

MakeHbarplot ==
    /\ call = "none"
    /\ call' = "make_hbarplot"
    /\ ret' = make_hbarplot(arg)
    /\ UNCHANGED <<download, session_state, raw, processed, df, arg>>

NextHbar == MakeHbarplot

SpecHbar == InitHbar /\ [][NextHbar]_vars

\* the bars of the figure have the colours of the claim: one bar for each
\* entry, equal counts in the same colour, a larger count in a later colour
ColouredByCount(score_counts, fig) ==
    /\ Len(fig.x) = Len(score_counts)
    /\ Len(fig.marker_color) = Len(score_counts)
    /\ \A k \in 1..Len(score_counts) :
          /\ fig.x[k] = score_counts[k][2]
          /\ fig.y[k] = score_counts[k][1]
    /\ \A j, k \in 1..Len(score_counts) :
          /\ score_counts[j][2] = score_counts[k][2]
                => fig.marker_color[j] = fig.marker_color[k]
          /\ score_counts[j][2] < score_counts[k][2]
                => FracLess(fig.marker_color[j], fig.marker_color[k])

\* C30: make_hbarplot returns a figure for every mapping of categories to
\* counts that is not empty, also when all the counts are equal (for
\* instance the result of get_top_lectors with one entry), with equal counts
\* in the same colour and a larger count in a later colour of the palette.
C30_FigureForEveryMapping ==
    (call = "make_hbarplot" /\ arg # <<>>) =>
        /\ ret.err = ""
        /\ ColouredByCount(arg, ret.val)

\* make_hbarplot returns the figure of the claim for every mapping with at
\* least two different counts, and for the empty one
FigureForDifferentCounts ==
    (call = "make_hbarplot" /\ Cardinality({arg[k][2] : k \in 1..Len(arg)}) # 1) =>
        /\ ret.err = ""
        /\ ColouredByCount(arg, ret.val)

====
